---- MODULE Spec2Model ----
(***************************************************************************)
(* A model of github-events-mcp: the extraction engine                     *)
(* (src/src/utils/eventExtraction.ts), the organization search             *)
(* (src/src/handlers/repoWithEventHandler.ts), the repository scan         *)
(* (handlers/scanRepoEvents.ts) and the tool-call dispatcher               *)
(* (src/src/index.ts).                                                     *)
(*                                                                         *)
(* Text is modelled as TLA+ strings, read character by character with      *)
(* SubSeq; the regular expressions of the source are written as syntax     *)
(* trees and run by a backtracking matcher with JavaScript's leftmost,     *)
(* first-alternative semantics.  The backtick cannot be written in a TLA+  *)
(* string, so no input of the model contains one; the quote characters of  *)
(* the inputs are ' and ".                                                 *)
(*                                                                         *)
(* Seven specifications share the state:                                   *)
(*   Spec          calls of extractSegmentEvents in one runtime, whose     *)
(*                 builtins an evaluated property fragment can replace     *)
(*   SpecTokens    extractSearchTokens of a name, then of its own output   *)
(*   SpecAnalysis  analyzeEvents of a list that grows by one candidate     *)
(*   SpecCross     analyzeCrossRepoPatterns of collected matches           *)
(*   SpecOrg       one call of searchOrgEvent, request by request; the     *)
(*                 scan of the files of a resolved tree is one step that   *)
(*                 returns matches or throws, in a runtime left intact     *)
(*   SpecScan      the batch loop of the repository scan and of the        *)
(*                 targeted scan, one step per batch issued and per        *)
(*                 request settled, in any order, in one runtime           *)
(*   SpecTools     one tool call through the dispatcher, the handler       *)
(*                 reduced to what it catches, throws and returns          *)
(*                                                                         *)
(* A record lists its fields in one fixed order throughout the module,     *)
(* which is not always the order of the object literal it models.          *)
(***************************************************************************)
EXTENDS Integers, Sequences, FiniteSets, TLC

\* ------------------------------------------------------------------ text

Ch(s, i) == SubSeq(s, i, i)

Chars(str) == {Ch(str, i) : i \in 1..Len(str)}

UpperLetters == "ABCDEFGHIJKLMNOPQRSTUVWXYZ"

LowerLetters == "abcdefghijklmnopqrstuvwxyz"

Digits == "0123456789"

UpperChars == Chars(UpperLetters)

LowerChars == Chars(LowerLetters)

DigitChars == Chars(Digits)

\* \w of a JavaScript regular expression
WordChars == UpperChars \cup LowerChars \cup DigitChars \cup {"_"}

\* \s of a JavaScript regular expression (the members an input line can hold)
SpaceChars == {" ", "\t", "\r"}

\* ['"`] of the source
QuoteChars == {"'", "\""}

\* String.prototype.toLowerCase, one character
LowerCh(c) ==
  IF c \in UpperChars
    THEN Ch(LowerLetters, CHOOSE i \in 1..26 : Ch(UpperLetters, i) = c)
    ELSE c

\* String.prototype.toUpperCase, one character
UpperCh(c) ==
  IF c \in LowerChars
    THEN Ch(UpperLetters, CHOOSE i \in 1..26 : Ch(LowerLetters, i) = c)
    ELSE c

\* the concatenation of piece[lo], ..., piece[hi], by halves
RECURSIVE Concat(_, _, _)
Concat(piece, lo, hi) ==
  IF lo > hi THEN ""
  ELSE IF lo = hi THEN piece[lo]
  ELSE LET mid == (lo + hi) \div 2
       IN Concat(piece, lo, mid) \o Concat(piece, mid + 1, hi)

\* String.prototype.toLowerCase
ToLowerCase(s) == Concat([i \in 1..Len(s) |-> LowerCh(Ch(s, i))], 1, Len(s))

\* String.prototype.includes
Includes(s, sub) ==
  \E i \in 1..(Len(s) - Len(sub) + 1) : SubSeq(s, i, i + Len(sub) - 1) = sub

\* String.prototype.trim
RECURSIVE TrimLeft(_)
TrimLeft(s) ==
  IF s # "" /\ Ch(s, 1) \in SpaceChars THEN TrimLeft(SubSeq(s, 2, Len(s))) ELSE s

RECURSIVE TrimRight(_)
TrimRight(s) ==
  IF s # "" /\ Ch(s, Len(s)) \in SpaceChars
    THEN TrimRight(SubSeq(s, 1, Len(s) - 1))
    ELSE s

Trim(s) == TrimRight(TrimLeft(s))

LineFeed == "\n"

\* ------------------------------------------------- regular expressions

\* the unbounded upper limit of a quantifier
Inf == -1

RSet(cs) == [cs |-> cs, t |-> "set", neg |-> FALSE]

RNot(cs) == [cs |-> cs, t |-> "set", neg |-> TRUE]

RLit(str) == [s |-> str, t |-> "lit", ici |-> FALSE]

\* a literal under the i flag
RLitI(str) == [s |-> str, t |-> "lit", ici |-> TRUE]

RSeq(rs) == [t |-> "seq", rs |-> rs]

RAlt(rs) == [t |-> "alt", rs |-> rs]

RRep(r, min, max, greedy) ==
  [t |-> "rep", r |-> r, min |-> min, max |-> max, greedy |-> greedy]

RStar(r) == RRep(r, 0, Inf, TRUE)

RPlus(r) == RRep(r, 1, Inf, TRUE)

ROpt(r) == RRep(r, 0, 1, TRUE)

RGrp(n, r) == [t |-> "grp", r |-> r, n |-> n]

RBol == [t |-> "bol"]

REol == [t |-> "eol"]

RWb == [t |-> "wb"]

\* the capture groups a pattern of the source has at most
MaxGroups == 2

NoCapture == <<0, 0>>

NoCaptures == [n \in 1..MaxGroups |-> NoCapture]

NoMatch == [ok |-> FALSE, p |-> 0, g |-> NoCaptures]

IsWordAt(s, i) == i >= 1 /\ i <= Len(s) /\ Ch(s, i) \in WordChars

\* a ?: b for match results: a when it matched, else b
OrElse(a, b) == IF a.ok THEN a ELSE b

Max(S) == CHOOSE k \in S : \A j \in S : j <= k

Min(S) == CHOOSE k \in S : \A j \in S : k <= j

\* how many characters from index p on the character class r takes, at
\* most max of them (Inf: any number)
ClassRun(r, max, s, p) ==
  LET fits(i) == i <= Len(s) /\ ((Ch(s, i) \in r.cs) # r.neg)
      left == Len(s) - p + 1
  IN CHOOSE k \in 0..(IF max = Inf \/ max > left THEN left ELSE max) :
       /\ \A j \in 0..(k - 1) : fits(p + j)
       /\ k = left \/ k = max \/ ~fits(p + k)

\* does the literal r stand at index p
LitAt(r, s, p) ==
  /\ p + Len(r.s) - 1 <= Len(s)
  /\ IF r.ici
       THEN ToLowerCase(SubSeq(s, p, p + Len(r.s) - 1)) = ToLowerCase(r.s)
       ELSE SubSeq(s, p, p + Len(r.s) - 1) = r.s

\* The backtracking matcher: rs is the sequence of nodes still to match
\* (the continuation), p the index of the next character, g the captures.
\* The result is the first match in backtracking order, as in JavaScript.
RECURSIVE Run(_, _, _, _)
RECURSIVE Step(_, _, _, _, _)
RECURSIVE Repeat(_, _, _, _, _, _)
Run(rs, s, p, g) ==
  IF rs = <<>> THEN [ok |-> TRUE, p |-> p, g |-> g]
  ELSE Step(Head(rs), Tail(rs), s, p, g)

\* a quantified character class, good being the lengths after which the
\* rest matches: the longest (greedy) or the shortest (lazy) of them
Repeat(r, rest, s, p, g, good) ==
  IF good = {} THEN NoMatch
  ELSE Run(rest, s, p + (IF r.greedy THEN Max(good) ELSE Min(good)), g)

\* the node r, then the continuation rest
Step(r, rest, s, p, g) ==
  CASE r.t = "set" ->
         IF p <= Len(s) /\ ((Ch(s, p) \in r.cs) # r.neg)
           THEN Run(rest, s, p + 1, g)
           ELSE NoMatch
    [] r.t = "lit" ->
         IF LitAt(r, s, p) THEN Run(rest, s, p + Len(r.s), g) ELSE NoMatch
    [] r.t = "seq" -> Run(r.rs \o rest, s, p, g)
    [] r.t = "alt" ->
         IF r.rs = <<>> THEN NoMatch
         ELSE OrElse(Run(<<Head(r.rs)>> \o rest, s, p, g),
                     Run(<<RAlt(Tail(r.rs))>> \o rest, s, p, g))
    [] r.t = "rep" /\ r.r.t = "set" ->
         Repeat(r, rest, s, p, g,
                {k \in r.min..ClassRun(r.r, r.max, s, p) :
                   Run(rest, s, p + k, g).ok})
    [] r.t = "rep" /\ r.r.t # "set" ->
         IF r.greedy
           THEN OrElse(IF r.max # 0
                         THEN Run(<<r.r, RRep(r.r, Max({r.min - 1, 0}),
                                              Max({r.max - 1, Inf}), TRUE)>>
                                    \o rest, s, p, g)
                         ELSE NoMatch,
                       IF r.min <= 0 THEN Run(rest, s, p, g) ELSE NoMatch)
           ELSE OrElse(IF r.min <= 0 THEN Run(rest, s, p, g) ELSE NoMatch,
                       IF r.max # 0
                         THEN Run(<<r.r, RRep(r.r, Max({r.min - 1, 0}),
                                              Max({r.max - 1, Inf}), FALSE)>>
                                    \o rest, s, p, g)
                         ELSE NoMatch)
    [] r.t = "grp" ->
         Run(<<[t |-> "open", n |-> r.n], r.r, [t |-> "close", n |-> r.n]>>
               \o rest, s, p, g)
    [] r.t = "open" -> Run(rest, s, p, [g EXCEPT ![r.n] = <<p, 0>>])
    [] r.t = "close" -> Run(rest, s, p, [g EXCEPT ![r.n] = <<g[r.n][1], p>>])
    [] r.t = "bol" -> IF p = 1 THEN Run(rest, s, p, g) ELSE NoMatch
    [] r.t = "eol" -> IF p = Len(s) + 1 THEN Run(rest, s, p, g) ELSE NoMatch
    [] r.t = "wb" ->
         IF IsWordAt(s, p - 1) # IsWordAt(s, p)
           THEN Run(rest, s, p, g)
           ELSE NoMatch

\* one match: where it starts, the index after its end, its captures
\* (a capture is <<first, index after last>>, NoCapture when the group took
\* no part in the match)
Match(from, m) == [ok |-> m.ok, p |-> m.p, g |-> m.g, from |-> from]

\* the leftmost match of re in s that starts at one of starts
MatchAtFirst(re, s, starts) ==
  IF starts = {} THEN Match(0, NoMatch)
  ELSE Match(Min(starts), Run(<<re>>, s, Min(starts), NoCaptures))

\* the leftmost match of re in s from index i on
FindFrom(re, s, i) ==
  MatchAtFirst(re, s,
               {k \in i..(Len(s) + 1) : Run(<<re>>, s, k, NoCaptures).ok})

\* RegExp.prototype.test / a truthy String.prototype.match without the g flag
Test(re, s) == \E k \in 1..(Len(s) + 1) : Run(<<re>>, s, k, NoCaptures).ok

\* String.prototype.matchAll (and match with the g flag): the successive
\* leftmost matches, each search starting where the last match ended (one
\* further on after an empty match)
RECURSIVE MatchAllFrom(_, _, _)
RECURSIVE MatchAllAfter(_, _, _)
MatchAllFrom(re, s, i) == MatchAllAfter(re, s, FindFrom(re, s, i))

MatchAllAfter(re, s, m) ==
  IF ~m.ok THEN <<>>
  ELSE <<m>> \o MatchAllFrom(re, s, IF m.p = m.from THEN m.p + 1 ELSE m.p)

MatchAll(re, s) == MatchAllFrom(re, s, 1)

\* match[0]
Whole(s, m) == SubSeq(s, m.from, m.p - 1)

\* match[n] is undefined when group n took no part in the match
HasGroup(m, n) == m.g[n] # NoCapture

\* match[n]
Group(s, m, n) == SubSeq(s, m.g[n][1], m.g[n][2] - 1)

\* ------------------------------------------- eventExtraction.ts: patterns

Ws == RStar(RSet(SpaceChars))

Quote == RSet(QuoteChars)

\* ['"`]([^'"`]+)['"`] with the string in group n
Quoted(n) == RSeq(<<Quote, RGrp(n, RPlus(RNot(QuoteChars))), Quote>>)

\* [a-zA-Z_$][a-zA-Z0-9_$]*
JsIdent ==
  RSeq(<<RSet(UpperChars \cup LowerChars \cup {"_", "$"}),
         RStar(RSet(WordChars \cup {"$"}))>>)

\* [A-Z_][A-Z0-9_]*
ScreamingIdent ==
  RSeq(<<RSet(UpperChars \cup {"_"}),
         RStar(RSet(UpperChars \cup DigitChars \cup {"_"}))>>)

\* \s*,?\s*({[^}]*})?
PropsTail ==
  RSeq(<<Ws, ROpt(RLit(",")), Ws,
         ROpt(RGrp(2, RSeq(<<RLit("{"), RStar(RNot({"}"})), RLit("}")>>)))>>)

\* \s*,?\s*({[\s\S]*?})?
PropsTailLazy ==
  RSeq(<<Ws, ROpt(RLit(",")), Ws,
         ROpt(RGrp(2, RSeq(<<RLit("{"), RRep(RNot({}), 0, Inf, FALSE),
                             RLit("}")>>)))>>)

\* /['"`]([^'"`]{3,}?)['"`]/g
quotedStringPattern ==
  RSeq(<<Quote, RGrp(1, RRep(RNot(QuoteChars), 3, Inf, FALSE)), Quote>>)

eventWords ==
  <<"user", "event", "click", "view", "submit", "complete", "start", "end",
    "sent", "received", "invitation", "dialog", "modal", "analysis",
    "selection">>

\* /\b(user|event|...|selection)\b/i
eventWordPattern ==
  RSeq(<<RWb, RAlt([i \in 1..Len(eventWords) |-> RLitI(eventWords[i])]), RWb>>)

eventSuffixes ==
  <<"Manager", "Event", "Action", "Click", "View", "Submit", "Complete",
    "Start", "End", "Track">>

\* the patterns array; patterns[i + 1] is the source's patterns[i]
patterns ==
  << \* 0: /Analytics\.track\s*\(\s*EventName\.(\w+)/g
     RSeq(<<RLit("Analytics.track"), Ws, RLit("("), Ws, RLit("EventName."),
            RGrp(1, RPlus(RSet(WordChars)))>>),
     \* 1: /AnalyticsLegacy\.track\s*\(\s*['"`]([^'"`]+)['"`]/g
     RSeq(<<RLit("AnalyticsLegacy.track"), Ws, RLit("("), Ws, Quoted(1)>>),
     \* 2: /analytics\.track\s*\(\s*['"`]([^'"`]+)['"`]\s*,?\s*({[^}]*})?/g
     RSeq(<<RLit("analytics.track"), Ws, RLit("("), Ws, Quoted(1), PropsTail>>),
     \* 3: /segment\.track\s*\(\s*['"`]([^'"`]+)['"`]\s*,?\s*({[^}]*})?/g
     RSeq(<<RLit("segment.track"), Ws, RLit("("), Ws, Quoted(1), PropsTail>>),
     \* 4: /(?:^|\s)track\s*\(\s*['"`]([^'"`]+)['"`]\s*,?\s*({[^}]*})?/g
     RSeq(<<RAlt(<<RBol, RSet(SpaceChars)>>), RLit("track"), Ws, RLit("("), Ws,
            Quoted(1), PropsTail>>),
     \* 5: /\.track\s*\(\s*['"`]([^'"`]+)['"`]\s*,?\s*({[\s\S]*?})?/g
     RSeq(<<RLit(".track"), Ws, RLit("("), Ws, Quoted(1), PropsTailLazy>>),
     \* 6: /traits\s*\[\s*['"`]([^'"`]+)['"`]\s*\]\s*=/g
     RSeq(<<RLit("traits"), Ws, RLit("["), Ws, Quoted(1), Ws, RLit("]"), Ws,
            RLit("=")>>),
     \* 7: /traits\.([a-zA-Z_$][a-zA-Z0-9_$]*)\s*=/g
     RSeq(<<RLit("traits."), RGrp(1, JsIdent), Ws, RLit("=")>>),
     \* 8: /['"`]([a-zA-Z][a-zA-Z0-9_]*(?:Manager|...|Track))['"`]\s*\]\s*=/g
     RSeq(<<Quote,
            RGrp(1, RSeq(<<RSet(UpperChars \cup LowerChars),
                           RStar(RSet(WordChars)),
                           RAlt([i \in 1..Len(eventSuffixes) |->
                                   RLit(eventSuffixes[i])])>>)),
            Quote, Ws, RLit("]"), Ws, RLit("=")>>),
     \* 9: /analytics\s*\[\s*['"`]([^'"`]+)['"`]\s*\]\s*=/g
     RSeq(<<RLit("analytics"), Ws, RLit("["), Ws, Quoted(1), Ws, RLit("]"), Ws,
            RLit("=")>>),
     \* 10: /analytics\.([a-zA-Z_$][a-zA-Z0-9_$]*)\s*=/g
     RSeq(<<RLit("analytics."), RGrp(1, JsIdent), Ws, RLit("=")>>),
     \* 11: /EventName\.([A-Z_][A-Z0-9_]*)/g
     RSeq(<<RLit("EventName."), RGrp(1, ScreamingIdent)>>),
     \* 12: /EVENT_([A-Z_][A-Z0-9_]*)/g
     RSeq(<<RLit("EVENT_"), RGrp(1, ScreamingIdent)>>),
     \* 13: /([A-Z_][A-Z0-9_]*)\s*=\s*['"`]([^'"`]+)['"`]/g
     RSeq(<<RGrp(1, ScreamingIdent), Ws, RLit("="), Ws, Quoted(2)>>),
     \* 14: /(\w+)\s*:\s*['"`]([^'"`]+)['"`]/g
     RSeq(<<RGrp(1, RPlus(RSet(WordChars))), Ws, RLit(":"), Ws, Quoted(2)>>),
     \* 15: /mixpanel\.track\s*\(\s*['"`]([^'"`]+)['"`]/g
     RSeq(<<RLit("mixpanel.track"), Ws, RLit("("), Ws, Quoted(1)>>),
     \* 16: /gtag\s*\(\s*['"`]event['"`]\s*,\s*['"`]([^'"`]+)['"`]/g
     RSeq(<<RLit("gtag"), Ws, RLit("("), Ws, Quote, RLit("event"), Quote, Ws,
            RLit(","), Ws, Quoted(1)>>),
     \* 17: /ga\s*\(\s*['"`]send['"`]\s*,\s*['"`]event['"`]\s*,\s*['"`]([^'"`]+)['"`]/g
     RSeq(<<RLit("ga"), Ws, RLit("("), Ws, Quote, RLit("send"), Quote, Ws,
            RLit(","), Ws, Quote, RLit("event"), Quote, Ws, RLit(","), Ws,
            Quoted(1)>>) >>

\* ------------------------------------------------------ source lines

\* The source lines the extraction is run on.
SourceLines ==
  << "const GREETING_SENT = \"Greeting Sent\";",
     "analytics.track('User Signed Up', { user_id: 1 })",
     "segment.track('boot', { a: Array.prototype.filter = 0 })",
     "  track('Plan Picked', { n: String.prototype.includes = 0 })",
     "this.track(\"save\", { w: console.warn = 0 })",
     "traits.plan = 'pro'",
     "mixpanel.track('buy'); gtag('event', 'buy')",
     "if (on) send(EventName.SIGN_UP, EVENT_SIGN_UP)",
     "label: \"Save\"",
     "bus.track('ab', { b: nope })",
     "t(\"Sign In\", \"Sign Out\")",
     "// no event on this line",
     "ga('send', 'event', 'buy')",
     "analytics.track('buy', { n: 1 }); track('pay')",
     "kind: \"sign_up\"",
     "emit(EventName.PAGE_OPENED)" >>

\* /function\s+(\w+)|(\w+)\s*[:=]\s*function|(\w+)\s*\(/
functionPattern ==
  RAlt(<<RSeq(<<RLit("function"), RPlus(RSet(SpaceChars)),
                RPlus(RSet(WordChars))>>),
         RSeq(<<RPlus(RSet(WordChars)), Ws, RSet({":", "="}), Ws,
                RLit("function")>>),
         RSeq(<<RPlus(RSet(WordChars)), Ws, RLit("(")>>)>>)

\* /class\s+(\w+)/
classPattern ==
  RSeq(<<RLit("class"), RPlus(RSet(SpaceChars)), RPlus(RSet(WordChars))>>)

\* the concatenation of the sequences parts[lo], ..., parts[hi]
RECURSIVE Flatten(_, _, _)
Flatten(parts, lo, hi) ==
  IF lo > hi THEN <<>>
  ELSE IF lo = hi THEN parts[lo]
  ELSE LET mid == (lo + hi) \div 2
       IN Flatten(parts, lo, mid) \o Flatten(parts, mid + 1, hi)

\* match[0] of each match
Wholes(line, ms) == [j \in 1..Len(ms) |-> Whole(line, ms[j])]

\* the matches of the pattern with index patternIndex
Tagged(patternIndex, ms) ==
  [j \in 1..Len(ms) |-> [m |-> ms[j], patternIndex |-> patternIndex]]

\* What the regular expressions of extractSegmentEvents and getContextInfo
\* find on one line.  None of it depends on the state, so it is worked out
\* once for each source line (scanned) and looked up after that (scan).
scanLine(line) ==
  [ \* line.match(/['"`]([^'"`]{3,}?)['"`]/g)
    quoted |-> Wholes(line, MatchAll(quotedStringPattern, line)),
    \* [...line.matchAll(pattern)] for each pattern, in the order of the
    \* patterns array
    cascade |->
      Flatten([q \in 1..18 |-> Tagged(q - 1, MatchAll(patterns[q], line))],
              1, 18),
    \* line.trim().match(...) of getContextInfo
    isFunction |-> Test(functionPattern, Trim(line)),
    isClass |-> Test(classPattern, Trim(line)) ]

scanned ==
  SubSeq([i \in 1..Len(SourceLines) |-> scanLine(SourceLines[i])],
         1, Len(SourceLines))

scan(line) ==
  IF \E i \in 1..Len(SourceLines) : SourceLines[i] = line
    THEN scanned[CHOOSE i \in 1..Len(SourceLines) : SourceLines[i] = line]
    ELSE scanLine(line)

\* ------------------------------------- eventExtraction.ts: the helpers

\* String.prototype.split on a one-character separator
Split(s, sep) ==
  LET at == {i \in 1..Len(s) : Ch(s, i) = sep}
      \* the index of the n-th separator; 0 and Len(s) + 1 fence the string
      nth(n) == IF n = 0 THEN 0
                ELSE IF n > Cardinality(at) THEN Len(s) + 1
                ELSE CHOOSE i \in at : Cardinality({j \in at : j < i}) = n - 1
  IN [n \in 1..(Cardinality(at) + 1) |-> SubSeq(s, nth(n - 1) + 1, nth(n) - 1)]

\* the backward scan for an enclosing function or class, from line i
RECURSIVE enclosingContext(_, _)
RECURSIVE contextOfLine(_, _, _)
enclosingContext(lines, i) ==
  IF i < 1 THEN <<>> ELSE contextOfLine(scan(lines[i]), lines, i)

contextOfLine(prevLine, lines, i) ==
  IF prevLine.isFunction THEN <<"in_function">>
  ELSE IF prevLine.isClass THEN <<"in_class">>
  ELSE enclosingContext(lines, i - 1)

\* Array.prototype.join
RECURSIVE Join(_, _)
Join(parts, sep) ==
  IF parts = <<>> THEN ""
  ELSE IF Len(parts) = 1 THEN parts[1]
  ELSE parts[1] \o sep \o Join(Tail(parts), sep)

\* joined || "direct"
orDirect(joined) == IF joined = "" THEN "direct" ELSE joined

\* lineIndex is the 1-based index of the line (the source's lineIndex + 1)
getContextInfo(line, lines, lineIndex, filename) ==
  orDirect(Join(
    enclosingContext(lines, lineIndex - 1)
    \o (IF \/ Includes(line, "case ")
           \/ (lineIndex > 1 /\ Includes(lines[lineIndex - 1], "case "))
          THEN <<"in_switch_case">> ELSE <<>>)
    \o (IF \/ Includes(line, "if (")
           \/ Includes(line, "if(")
           \/ (lineIndex > 1 /\ Includes(lines[lineIndex - 1], "if "))
          THEN <<"conditional">> ELSE <<>>)
    \o (IF Includes(filename, "analytics") THEN <<"analytics_file">> ELSE <<>>),
    ","))

fileTypeWords ==
  <<"analytics", "tracking", "events", "service", "component", "page", "test">>

getFileType(filename) ==
  IF \E i \in 1..Len(fileTypeWords) : Includes(filename, fileTypeWords[i])
    THEN fileTypeWords[CHOOSE i \in 1..Len(fileTypeWords) :
                         /\ Includes(filename, fileTypeWords[i])
                         /\ \A j \in 1..(i - 1) :
                              ~Includes(filename, fileTypeWords[j])]
    ELSE LET parts == Split(filename, ".")
             ext == ToLowerCase(parts[Len(parts)])
         IN IF ext = "" THEN "unknown" ELSE ext

\* eventName.toLowerCase().replace(/_([a-z])/g, (_, letter) => letter.toUpperCase())
toCamelCase(eventName) ==
  LET s == ToLowerCase(eventName)
      \* an underscore before a lower-case letter goes, the letter is raised
      piece(i) ==
        IF Ch(s, i) = "_" /\ i < Len(s) /\ Ch(s, i + 1) \in LowerChars THEN ""
        ELSE IF i > 1 /\ Ch(s, i - 1) = "_" /\ Ch(s, i) \in LowerChars
          THEN UpperCh(Ch(s, i))
        ELSE Ch(s, i)
  IN Concat([i \in 1..Len(s) |-> piece(i)], 1, Len(s))

\* ------------------------------------------------ property mappings

\* A JavaScript value of a property mapping
Str(s) == [s |-> s, t |-> "str", n |-> 0]

Num(n) == [s |-> "", t |-> "num", n |-> n]

Bool(b) == [s |-> "", t |-> "bool", n |-> IF b THEN 1 ELSE 0]

Null == [s |-> "", t |-> "null", n |-> 0]

\* A Record<string, unknown> is the sequence of its entries, in the order
\* Object.keys gives them (insertion order; no key of the model is an
\* integer index).
HasKey(props, k) == \E i \in 1..Len(props) : props[i].k = k

KeyIndex(props, k) == CHOOSE i \in 1..Len(props) : props[i].k = k

\* obj[k] = v
SetProp(props, k, v) ==
  IF HasKey(props, k)
    THEN [props EXCEPT ![KeyIndex(props, k)] = [k |-> k, v |-> v]]
    ELSE Append(props, [k |-> k, v |-> v])

\* { ...a, ...b }
RECURSIVE Spread(_, _)
Spread(a, b) ==
  IF b = <<>> THEN a ELSE Spread(SetProp(a, b[1].k, b[1].v), Tail(b))

\* Object.keys
ObjectKeys(props) == [i \in 1..Len(props) |-> props[i].k]

\* obj[k], for a key the mapping has
GetProp(props, k) == props[KeyIndex(props, k)].v

\* event.properties._analytics_type
analyticsType(event) ==
  IF HasKey(event.properties, "_analytics_type")
    THEN GetProp(event.properties, "_analytics_type").s
    ELSE ""

\* ---------------------------- eventExtraction.ts: parseEventProperties

\* String.prototype.indexOf from index i (0 when absent)
IndexOf(s, sub, i) ==
  LET at == {k \in i..(Len(s) - Len(sub) + 1) :
               SubSeq(s, k, k + Len(sub) - 1) = sub}
  IN IF at = {} THEN 0 ELSE CHOOSE k \in at : \A j \in at : k <= j

\* .replace(/\/\/.*$/gm, ""): "." stops at a line terminator
RECURSIVE stripLineComments(_)
stripLineComments(s) ==
  LET i == IndexOf(s, "//", 1)
      cr == IF i = 0 THEN 0 ELSE IndexOf(s, "\r", i)
  IN IF i = 0 THEN s
     ELSE IF cr = 0 THEN SubSeq(s, 1, i - 1)
     ELSE SubSeq(s, 1, i - 1) \o "\r"
            \o stripLineComments(SubSeq(s, cr + 1, Len(s)))

\* .replace(/\/\*[\s\S]*?\*\//g, "")
RECURSIVE stripBlockComments(_)
stripBlockComments(s) ==
  LET i == IndexOf(s, "/*", 1)
      k == IF i = 0 THEN 0 ELSE IndexOf(s, "*/", i + 2)
  IN IF i = 0 \/ k = 0 THEN s
     ELSE SubSeq(s, 1, i - 1) \o stripBlockComments(SubSeq(s, k + 2, Len(s)))

cleanProperties(propertiesString) ==
  Trim(stripBlockComments(stripLineComments(propertiesString)))

\* The expression new Function("return " + cleaned) evaluates.  The model
\* evaluates the object literals of this grammar as JavaScript does:
\*   { key: value, ... }  with value one of
\*     123                  a number
\*     'text' or "text"     a string without a comma or a colon
\*     true false null      a literal
\*     name                 a reference to a name nothing defines: it throws
\*     path = 123           an assignment, evaluated in the global scope
\* and takes any other text to be a syntax error, which is what it is for
\* every fragment the inputs of the model hold.
IsIdent(text) ==
  /\ text # ""
  /\ Ch(text, 1) \in UpperChars \cup LowerChars \cup {"_", "$"}
  /\ \A i \in 1..Len(text) : Ch(text, i) \in WordChars \cup {"$"}

IsNumber(text) == text # "" /\ \A i \in 1..Len(text) : Ch(text, i) \in DigitChars

IsString(text) ==
  /\ Len(text) >= 2
  /\ Ch(text, 1) \in QuoteChars
  /\ Ch(text, Len(text)) = Ch(text, 1)
  /\ \A i \in 2..(Len(text) - 1) : Ch(text, i) # Ch(text, 1)

\* the text before the first sep, and the text after it
Before(text, sep) == Trim(SubSeq(text, 1, IndexOf(text, sep, 1) - 1))

After(text, sep) == Trim(SubSeq(text, IndexOf(text, sep, 1) + 1, Len(text)))

IsPath(text) ==
  \A i \in 1..Len(Split(text, ".")) : IsIdent(Split(text, ".")[i])

IsAssign(text) ==
  /\ Includes(text, "=")
  /\ IsPath(Before(text, "="))
  /\ IsNumber(After(text, "="))

RECURSIVE ParseNat(_)
ParseNat(text) ==
  IF text = "" THEN 0
  ELSE 10 * ParseNat(SubSeq(text, 1, Len(text) - 1))
       + ((CHOOSE i \in 1..10 : Ch(Digits, i) = Ch(text, Len(text))) - 1)

\* The parts of the runtime an evaluated fragment can replace and that
\* extractSegmentEvents goes on to call.
Builtins ==
  {"Array.prototype.filter", "String.prototype.includes", "console.warn"}

\* the entry texts of an object literal: a trailing comma is allowed
withoutLast(parts) ==
  IF Len(parts) > 1 /\ Trim(parts[Len(parts)]) = ""
    THEN SubSeq(parts, 1, Len(parts) - 1)
    ELSE parts

literalEntries(cleaned) ==
  withoutLast(Split(SubSeq(cleaned, 2, Len(cleaned) - 1), ","))

valueParses(v) == IsNumber(v) \/ IsString(v) \/ IsAssign(v) \/ IsIdent(v)

\* does the text parse (new Function throws a SyntaxError when it does not)
entryParses(text) ==
  /\ Includes(text, ":")
  /\ IsIdent(Before(text, ":"))
  /\ valueParses(After(text, ":"))

allParse(entries) == \A i \in 1..Len(entries) : entryParses(entries[i])

literalParses(cleaned) ==
  /\ Len(cleaned) >= 2
  /\ Ch(cleaned, 1) = "{"
  /\ Ch(cleaned, Len(cleaned)) = "}"
  /\ \/ Trim(SubSeq(cleaned, 2, Len(cleaned) - 1)) = ""
     \/ allParse(literalEntries(cleaned))

\* the evaluation of one entry key: v; acc is [threw, props, env], env the
\* set of replaced builtins
evalEntry(acc, key, v) ==
  IF IsNumber(v)
    THEN [acc EXCEPT !.props = SetProp(@, key, Num(ParseNat(v)))]
  ELSE IF IsString(v)
    THEN [acc EXCEPT !.props = SetProp(@, key, Str(SubSeq(v, 2, Len(v) - 1)))]
  ELSE IF IsAssign(v)
    THEN IF Before(v, "=") \in Builtins
           THEN [acc EXCEPT
                   !.props = SetProp(@, key, Num(ParseNat(After(v, "=")))),
                   !.env = @ \cup {Before(v, "=")}]
         ELSE IF Includes(Before(v, "="), ".")
           \* the root of the path is not defined
           THEN [acc EXCEPT !.threw = TRUE]
         \* an undeclared name becomes a property of the global object,
         \* which nothing here reads
         ELSE [acc EXCEPT
                 !.props = SetProp(@, key, Num(ParseNat(After(v, "="))))]
  ELSE IF v \in {"true", "false"}
    THEN [acc EXCEPT !.props = SetProp(@, key, Bool(v = "true"))]
  ELSE IF v = "null"
    THEN [acc EXCEPT !.props = SetProp(@, key, Null)]
  \* ReferenceError
  ELSE [acc EXCEPT !.threw = TRUE]

\* func(): the entries are evaluated left to right
RECURSIVE evalEntries(_, _)
evalEntries(entries, acc) ==
  IF entries = <<>> \/ acc.threw THEN acc
  ELSE evalEntries(Tail(entries),
                   evalEntry(acc, Before(entries[1], ":"),
                             After(entries[1], ":")))

\* new Function(`return ${cleaned}`)(): [threw, props, env]
evalFunction(cleaned, env) ==
  IF ~literalParses(cleaned) THEN [props |-> <<>>, env |-> env, threw |-> TRUE]
  ELSE IF Trim(SubSeq(cleaned, 2, Len(cleaned) - 1)) = ""
    THEN [props |-> <<>>, env |-> env, threw |-> FALSE]
  ELSE evalEntries(literalEntries(cleaned),
                   [props |-> <<>>, env |-> env, threw |-> FALSE])

\* the catch turns every throw into {}, and keeps what the evaluation did to
\* the runtime before it threw
caught(r) == [props |-> IF r.threw THEN <<>> ELSE r.props, env |-> r.env]

parseCleaned(cleaned, env) ==
  IF cleaned = "" \/ cleaned = "{}" THEN [props |-> <<>>, env |-> env]
  ELSE caught(evalFunction(cleaned, env))

\* parseEventProperties: [props, env]
parseEventProperties(propertiesString, env) ==
  parseCleaned(cleanProperties(propertiesString), env)

\* -------------------------- eventExtraction.ts: extractSegmentEvents

\* only a colon makes a quoted string an event name
looksLikeKey(eventName) == Includes(eventName, ":")

\* does a quoted string look like an event name
looksLikeEventName(eventName) ==
  \/ Includes(eventName, " ")
  \/ Includes(eventName, ":")
  \/ Test(eventWordPattern, eventName)

\* the quoted strings as they are, quotes kept
quotesKept(qs) == qs

\* quotedString.slice(1, -1) of each
unquoted(qs) == [j \in 1..Len(qs) |-> SubSeq(qs[j], 2, Len(qs[j]) - 1)]

\* the quoted strings of one line, quotes removed
quotedStrings(line) == unquoted(scan(line).quoted)

\* the event located by the index of forEach, which counts from 0
exactMatchEventAtIndex(eventName, filename, lineNo) ==
  [properties |-> <<[k |-> "_analytics_type", v |-> Str("exact_match")]>>,
   name |-> eventName,
   location |-> [line |-> lineNo - 1, file |-> filename]]

exactMatchEvent(eventName, filename, lineNo) ==
  [properties |-> <<[k |-> "_analytics_type", v |-> Str("exact_match")],
                    [k |-> "_context", v |-> Str("direct")],
                    [k |-> "_file_type", v |-> Str(getFileType(filename))]>>,
   name |-> eventName,
   location |-> [line |-> lineNo, file |-> filename]]

\* the events of quotedStrings.forEach on line lineNo
exactMatches(names, filename, lineNo) ==
  LET keep(n) == looksLikeEventName(n)
  IN [j \in 1..Len(SelectSeq(names, keep)) |->
        exactMatchEvent(SelectSeq(names, keep)[j], filename, lineNo)]

\* PRIORITY 1, the first lines.forEach: [raised, events].  Nothing catches
\* here, so a call of a replaced String.prototype.includes ends the call.
exactPass(lines, filename, env) ==
  IF /\ "String.prototype.includes" \in env
     /\ \E i \in 1..Len(lines) : scan(lines[i]).quoted # <<>>
    THEN [raised |-> TRUE, events |-> <<>>]
    ELSE [raised |-> FALSE,
          events |->
            Flatten([i \in 1..Len(lines) |->
                       exactMatches(quotedStrings(lines[i]), filename, i)],
                    1, Len(lines))]

\* the classification of a pattern index
eventTypeOf(patternIndex) ==
  IF patternIndex >= 6 /\ patternIndex <= 7 THEN "trait"
  ELSE IF patternIndex >= 8 /\ patternIndex <= 11 THEN "property"
  ELSE IF patternIndex >= 12 /\ patternIndex <= 13 THEN "constant"
  ELSE IF patternIndex = 14 THEN "constant"
  ELSE IF patternIndex = 15 THEN "property"
  ELSE IF patternIndex >= 16 THEN "third_party"
  ELSE "track"

\* which capture is the event name
nameGroupOf(patternIndex) == IF patternIndex \in {14, 15} THEN 2 ELSE 1

\* the matches of line i with their line
onLine(i, ms) ==
  [j \in 1..Len(ms) |->
     [m |-> ms[j].m, line |-> i, patternIndex |-> ms[j].patternIndex]]

\* the matches of the second lines.forEach, in the order they are
\* processed: by line, then by pattern, then by position
cascadeMatches(lines) ==
  Flatten([i \in 1..Len(lines) |-> onLine(i, scan(lines[i]).cascade)],
          1, Len(lines))

\* is match[n] truthy: its group matched, and not the empty string
truthy(line, m, n) == HasGroup(m, n) /\ Group(line, m, n) # ""

\* eventName after the "Enhanced event name processing"
processedName(rawName, patternIndex) ==
  IF /\ eventTypeOf(patternIndex) = "constant"
     /\ Includes(rawName, "_")
     /\ patternIndex < 14
    THEN toCamelCase(rawName)
    ELSE rawName

\* the event of the first events.push of the cascade
cascadeEvent(properties, lines, filename, item) ==
  [properties |->
     Spread(properties,
            <<[k |-> "_analytics_type",
               v |-> Str(eventTypeOf(item.patternIndex))],
              [k |-> "_context",
               v |-> Str(getContextInfo(lines[item.line], lines, item.line,
                                        filename))],
              [k |-> "_file_type", v |-> Str(getFileType(filename))]>>),
   name |-> processedName(Group(lines[item.line], item.m,
                                nameGroupOf(item.patternIndex)),
                          item.patternIndex),
   location |-> [line |-> item.line, file |-> filename]]

\* the event of the catch block
fallbackEvent(lines, filename, item) ==
  [properties |-> <<[k |-> "_analytics_type", v |-> Str("unknown")],
                    [k |-> "_parsing_error", v |-> Bool(TRUE)]>>,
   name |-> Group(lines[item.line], item.m, 1),
   location |-> [line |-> item.line, file |-> filename]]

\* the try block once the properties are parsed; named: eventName is truthy.
\* eventName.includes and line.includes are called when it is, so a replaced
\* String.prototype.includes throws inside the try; the catch calls
\* console.warn and pushes the event without properties.
afterProperties(acc, lines, filename, item, parsed, named) ==
  IF ~(named /\ "String.prototype.includes" \in parsed.env)
    THEN [env |-> parsed.env,
          raised |-> FALSE,
          events |-> IF named
                       THEN Append(acc.events,
                                   cascadeEvent(parsed.props, lines, filename,
                                                item))
                       ELSE acc.events]
  ELSE IF "console.warn" \in parsed.env
    THEN [env |-> parsed.env, raised |-> TRUE, events |-> acc.events]
  ELSE [env |-> parsed.env,
        raised |-> FALSE,
        events |-> IF truthy(lines[item.line], item.m, 1)
                     THEN Append(acc.events, fallbackEvent(lines, filename, item))
                     ELSE acc.events]

\* the body of matches.forEach for one match; acc is [raised, events, env]
processMatch(acc, lines, filename, item) ==
  IF acc.raised THEN acc
  ELSE afterProperties(
         acc, lines, filename, item,
         IF /\ truthy(lines[item.line], item.m, 2)
            /\ eventTypeOf(item.patternIndex) # "constant"
           THEN parseEventProperties(Group(lines[item.line], item.m, 2),
                                     acc.env)
           ELSE [props |-> <<>>, env |-> acc.env],
         truthy(lines[item.line], item.m, nameGroupOf(item.patternIndex)))

RECURSIVE processMatches(_, _, _, _)
processMatches(acc, lines, filename, items) ==
  IF items = <<>> THEN acc
  ELSE processMatches(processMatch(acc, lines, filename, items[1]),
                      lines, filename, Tail(items))

sameLine(e, event) ==
  e.location.line = event.location.line /\ e.location.file = event.location.file

sameName(e, event) ==
  e.name = event.name /\ e.location.line = event.location.line

\* a filter that keeps every candidate
keptAll(self, index) == index \in 1..Len(self)

\* the predicate of events.filter: is self[index] kept
keptByDedup(self, index) ==
  LET duplicates == {i \in 1..Len(self) : sameLine(self[i], self[index])}
      exact == {i \in duplicates : analyticsType(self[i]) = "exact_match"}
  IN IF Cardinality(duplicates) > 1 /\ exact # {}
       \* Array.prototype.find: the first
       THEN index = Min(exact)
       \* Array.prototype.findIndex
       ELSE index = Min({i \in 1..Len(self) : sameName(self[i], self[index])})

\* the n-th member of a set of indices
Nth(S, n) == CHOOSE i \in S : Cardinality({j \in S : j < i}) = n - 1

\* Array.prototype.filter with keep the indices that pass
Filtered(arr, keep) == [n \in 1..Cardinality(keep) |-> arr[Nth(keep, n)]]

\* Deduplicate events with priority for exact matches
uniqueEvents(events) ==
  Filtered(events, {i \in 1..Len(events) : keptByDedup(events, i)})

\* the end of extractSegmentEvents: events.filter is called on the array
deduplicated(second) ==
  IF second.raised THEN [env |-> second.env, raised |-> TRUE, events |-> <<>>]
  ELSE IF "Array.prototype.filter" \in second.env
    THEN [env |-> second.env, raised |-> TRUE, events |-> <<>>]
  ELSE [env |-> second.env, raised |-> FALSE,
        events |-> uniqueEvents(second.events)]

\* the cascade and the deduplication, after the first pass gave first
afterExactPass(lines, filename, env, first) ==
  IF first.raised THEN [env |-> env, raised |-> TRUE, events |-> <<>>]
  ELSE deduplicated(
         processMatches([env |-> env, raised |-> FALSE, events |-> first.events],
                        lines, filename, cascadeMatches(lines)))

extractLines(lines, filename, env) ==
  afterExactPass(lines, filename, env, exactPass(lines, filename, env))

\* the events array when the second lines.forEach ends, less the candidates
\* of the first: what the cascade pushed, in order, before the deduplication
cascadePass(lines, filename, env) ==
  IF exactPass(lines, filename, env).raised THEN <<>>
  ELSE processMatches([env |-> env, raised |-> FALSE, events |-> <<>>],
                      lines, filename, cascadeMatches(lines)).events

\* extractSegmentEvents run in a runtime whose replaced builtins are env:
\* [raised, events, env].  raised: the call ended in an exception.
extractSegmentEvents(content, filename, env) ==
  extractLines(Split(content, LineFeed), filename, env)

\* ------------------------------- eventExtraction.ts: analyzeEvents

\* \s in a name (a line of a file holds no line feed, a name can)
Whitespace == SpaceChars \cup {LineFeed}

\* Array.prototype.includes
InList(list, x) == \E i \in 1..Len(list) : list[i] = x

\* event.name.match(/^[A-Z][a-zA-Z\s]*$/)
titleCase(name) ==
  /\ name # ""
  /\ Ch(name, 1) \in UpperChars
  /\ \A i \in 2..Len(name) :
       Ch(name, i) \in UpperChars \cup LowerChars \cup Whitespace

userIdKeys == <<"userId", "user_id", "id", "customerId", "customer_id">>

timestampKeys == <<"timestamp", "time", "createdAt", "created_at">>

\* props.some((p) => list.includes(p.toLowerCase()))
someLowerIn(props, list) ==
  \E i \in 1..Len(props) : InList(list, ToLowerCase(props[i]))

\* props.filter((p) => p.includes("_"))
snakeCaseProps(props) ==
  LET snake(p) == Includes(p, "_") IN SelectSeq(props, snake)

\* the analysis is [issues, suggestions, score]; each check of the loop
\* body adds to it
issue(acc, text, points) ==
  [acc EXCEPT !.issues = Append(@, text), !.score = @ - points]

suggestion(acc, text, points) ==
  [acc EXCEPT !.suggestions = Append(@, text), !.score = @ - points]

\* Check PascalCase or Title Case
checkNaming(acc, name) ==
  IF ~titleCase(name)
    THEN issue(acc, "Event \"" \o name \o "\" doesn't follow proper naming "
                    \o "convention (should be Title Case)", 10)
    ELSE acc

\* Check for underscores or dashes
checkDashes(acc, name) ==
  IF Includes(name, "_") \/ Includes(name, "-")
    THEN issue(acc, "Event \"" \o name \o "\" contains underscores or dashes", 5)
    ELSE acc

\* Check for user identification
checkUserId(acc, name, props) ==
  IF ~someLowerIn(props, userIdKeys) /\ Len(props) > 0
    THEN suggestion(acc, "Event \"" \o name \o "\" might benefit from user "
                         \o "identification property", 5)
    ELSE acc

\* Check property count
checkCount(acc, name, props) ==
  IF Len(props) > 15
    THEN issue(acc, "Event \"" \o name \o "\" has too many properties ("
                    \o ToString(Len(props))
                    \o "). Consider grouping related properties.", 10)
  ELSE IF Len(props) = 0
    THEN suggestion(acc, "Event \"" \o name \o "\" has no properties. "
                         \o "Consider adding contextual information.", 3)
  ELSE acc

\* Check for snake_case properties
checkSnakeCase(acc, name, props) ==
  IF Len(snakeCaseProps(props)) > 0
    THEN issue(acc, "Event \"" \o name \o "\" has snake_case properties: "
                    \o Join(snakeCaseProps(props), ", ")
                    \o ". Consider camelCase.", 5)
    ELSE acc

\* Check for common missing properties
checkTimestamp(acc, name, props) ==
  IF ~someLowerIn(props, timestampKeys) /\ Len(props) > 0
    THEN suggestion(acc, "Event \"" \o name \o "\" might benefit from a "
                         \o "timestamp property", 0)
    ELSE acc

\* the body of events.forEach
analyzeEvent(acc, name, props) ==
  checkTimestamp(
    checkSnakeCase(
      checkCount(
        checkUserId(checkDashes(checkNaming(acc, name), name), name, props),
        name, props),
      name, props),
    name, props)

RECURSIVE analyzeEach(_, _)
analyzeEach(acc, events) ==
  IF events = <<>> THEN acc
  ELSE analyzeEach(analyzeEvent(acc, events[1].name,
                                ObjectKeys(events[1].properties)),
                   Tail(events))

\* the score as the loop left it
unfloored(acc) == acc

\* score: Math.max(0, score)
floored(acc) == [acc EXCEPT !.score = Max({0, @})]

analyzeEvents(events) ==
  floored(analyzeEach([issues |-> <<>>, score |-> 100, suggestions |-> <<>>],
                      events))

\* ------------------------- repoWithEventHandler.ts: extractSearchTokens

\* [\s\-_\.]
Delimiters == Whitespace \cup {"-", "_", "."}

\* s.split(/[seps]+/) without the empty strings that split gives at the
\* ends of s (every caller filters them out by length): the maximal runs
\* of characters that are not in seps, in order
Fields(s, seps) ==
  LET starts == {i \in 1..Len(s) :
                   Ch(s, i) \notin seps /\ (i = 1 \/ Ch(s, i - 1) \in seps)}
      end(i) == Min({j \in i..Len(s) : j = Len(s) \/ Ch(s, j + 1) \in seps})
  IN [n \in 1..Cardinality(starts) |->
        SubSeq(s, Nth(starts, n), end(Nth(starts, n)))]

\* only the words of more than three characters
longWords(words) == LET long(w) == Len(w) > 3 IN SelectSeq(words, long)

\* .filter((word) => word.length >= 3)
meaningful(words) == LET long(w) == Len(w) >= 3 IN SelectSeq(words, long)

\* .map((word) => word.toLowerCase())
lowerCased(words) == [i \in 1..Len(words) |-> ToLowerCase(words[i])]

\* eventName.replace(/([a-z])([A-Z])/g, "$1 $2")
camelSpaced(s) ==
  Concat([i \in 1..Len(s) |->
            IF i > 1 /\ Ch(s, i - 1) \in LowerChars /\ Ch(s, i) \in UpperChars
              THEN " " \o Ch(s, i)
              ELSE Ch(s, i)],
         1, Len(s))

stopWords ==
  <<"the", "and", "or", "but", "for", "with", "from", "into", "over">>

\* [...new Set(tokens)]: the first occurrence of each, in order
Unique(arr) ==
  Filtered(arr, {i \in 1..Len(arr) : \A j \in 1..(i - 1) : arr[j] # arr[i]})

\* .filter((token) => !stopWords.includes(token))
withoutStopWords(tokens) ==
  LET kept(token) == ~InList(stopWords, token) IN SelectSeq(tokens, kept)

extractSearchTokens(eventName) ==
  withoutStopWords(Unique(
    lowerCased(meaningful(Fields(eventName, Delimiters)))
    \o meaningful(Fields(ToLowerCase(camelSpaced(eventName)), Whitespace))))

\* ------------------- repoWithEventHandler.ts: the cross-repo analysis

\* the characters of the model's property keys and file paths, in the order
\* of their UTF-16 code units
CodeUnits ==
  " $-./0123456789ABCDEFGHIJKLMNOPQRSTUVWXYZ_abcdefghijklmnopqrstuvwxyz"

CodeOf(c) == CHOOSE i \in 1..Len(CodeUnits) : Ch(CodeUnits, i) = c

\* the first index at which a and b differ (one past the shorter when one
\* is a prefix of the other)
firstDifference(a, b) ==
  Min({i \in 1..(Min({Len(a), Len(b)}) + 1) :
         i > Len(a) \/ i > Len(b) \/ Ch(a, i) # Ch(b, i)})

\* the order of Array.prototype.sort without a comparator, at index d
sortsBeforeAt(a, b, d) ==
  /\ d <= Len(b)
  /\ d > Len(a) \/ CodeOf(Ch(a, d)) < CodeOf(Ch(b, d))

\* a sorts before b under Array.prototype.sort without a comparator
SortsBefore(a, b) == sortsBeforeAt(a, b, firstDifference(a, b))

\* key put at its place in sorted, which has n members that sort before it
insertedAt(sorted, key, n) ==
  SubSeq(sorted, 1, n) \o <<key>> \o SubSeq(sorted, n + 1, Len(sorted))

inserted(sorted, key) ==
  insertedAt(sorted, key,
             Cardinality({i \in 1..Len(sorted) : SortsBefore(sorted[i], key)}))

\* Object.keys(...) without the sort: in insertion order
Unsorted(keys) == keys

\* Object.keys(...).sort(): the keys of an object differ from one another
RECURSIVE Sorted(_)
Sorted(keys) ==
  IF keys = <<>> THEN <<>>
  ELSE inserted(Sorted(SubSeq(keys, 1, Len(keys) - 1)), keys[Len(keys)])

\* Object.keys(event.properties).sort().join(", ")
signature(event) == Join(Sorted(ObjectKeys(event.properties)), ", ")

\* event.location.file.split("/")[0]
repositoryOf(event) == Split(event.location.file, "/")[1]

\* does acc hold the signature (no signature of the model names a member of
\* Object.prototype)
patternIndex(acc, propKeys) ==
  CHOOSE i \in 0..Len(acc) :
    IF \E j \in 1..Len(acc) : acc[j].pattern = propKeys
      THEN i > 0 /\ acc[i].pattern = propKeys
      ELSE i = 0

\* Set.prototype.add on a set kept in insertion order
Added(list, x) == IF InList(list, x) THEN list ELSE Append(list, x)

\* the group of the signature is created, or counted (i = 0: none yet)
counted(acc, event, propKeys, i) ==
  IF i = 0
    THEN Append(acc, [pattern |-> propKeys,
                      count |-> 1,
                      repositories |-> <<repositoryOf(event)>>,
                      example_properties |-> event.properties])
    ELSE [acc EXCEPT ![i].count = @ + 1,
                     ![i].repositories = Added(@, repositoryOf(event))]

\* the body of events.reduce
reduced(acc, event, propKeys) ==
  counted(acc, event, propKeys, patternIndex(acc, propKeys))

RECURSIVE propertyPatterns(_, _)
propertyPatterns(acc, events) ==
  IF events = <<>> THEN acc
  ELSE propertyPatterns(reduced(acc, events[1], signature(events[1])),
                        Tail(events))

analyzePropertyVariations(events) == propertyPatterns(<<>>, events)

\* str.toLowerCase().replace(/[_-]/g, "")
normalize(str) ==
  Concat([i \in 1..Len(str) |->
            IF Ch(str, i) \in {"_", "-"} THEN "" ELSE LowerCh(Ch(str, i))],
         1, Len(str))

arePropertiesSimilar(prop1, prop2) ==
  normalize(prop1) = normalize(prop2) /\ prop1 # prop2

Range(seq) == {seq[i] : i \in 1..Len(seq)}

\* properties.filter((p) => !processed.has(p) && arePropertiesSimilar(prop, p))
similarTo(properties, processed, prop) ==
  LET similar(p) == p \notin processed /\ arePropertiesSimilar(prop, p)
  IN SelectSeq(properties, similar)

\* the end of the forEach body; state is [groups, processed]
grouped(state, similar) ==
  IF Len(similar) > 1
    THEN [processed |-> state.processed \cup Range(similar),
          groups |-> Append(state.groups, similar)]
    ELSE state

RECURSIVE groupFrom(_, _, _)
groupFrom(state, properties, i) ==
  IF i > Len(properties) THEN state
  ELSE groupFrom(IF properties[i] \in state.processed
                   THEN state
                   ELSE grouped(state, similarTo(properties, state.processed,
                                                 properties[i])),
                 properties, i + 1)

groupSimilarProperties(properties) ==
  groupFrom([processed |-> {}, groups |-> <<>>], properties, 1).groups

\* events.flatMap((e) => Object.keys(e.properties))
allProperties(events) ==
  Flatten([i \in 1..Len(events) |-> ObjectKeys(events[i].properties)],
          1, Len(events))

\* propertyGroups.forEach: a message for each group of more than one key
inconsistencyMessages(propertyGroups) ==
  LET several(group) == Len(group) > 1
      groups == SelectSeq(propertyGroups, several)
  IN [i \in 1..Len(groups) |->
        "Property naming inconsistency: " \o Join(groups[i], ", ")
        \o " - consider standardizing"]

findImplementationInconsistencies(events) ==
  inconsistencyMessages(groupSimilarProperties(allProperties(events)))

\* ---------------------- repoWithEventHandler.ts: the organization search

\* analyzeCrossRepoPatterns once allEvents is known
crossRepoSummary(allEvents, orgResults, eventName) ==
  IF Len(allEvents) = 0
    THEN [total_occurrences |-> 0,
          repositories_count |-> 0,
          message |-> "No occurrences of \"" \o eventName
                      \o "\" found in the organization"]
    ELSE [total_occurrences |-> Len(allEvents),
          repositories_count |-> Len(orgResults),
          property_variations |-> analyzePropertyVariations(allEvents),
          implementation_inconsistencies |->
            findImplementationInconsistencies(allEvents)]

\* orgResults.flatMap((repo) => repo.events)
eventsOf(orgResults) ==
  Flatten([i \in 1..Len(orgResults) |-> orgResults[i].events],
          1, Len(orgResults))

analyzeCrossRepoPatterns(orgResults, eventName) ==
  crossRepoSummary(eventsOf(orgResults), orgResults, eventName)

\* Array.prototype.slice(0, end)
Slice(arr, end) ==
  SubSeq(arr, 1, IF end < 0 THEN Len(arr) + end ELSE Min({end, Len(arr)}))

\* exactResults.items.forEach: the repository of each item, the first time
\* its name is seen
firstByName(repos) ==
  Filtered(repos, {i \in 1..Len(repos) :
                     \A j \in 1..(i - 1) : repos[j].name # repos[i].name})

\* response is what octokit.search.code gave: [ok, items], items the
\* repository of each hit
findReposWithExactMatch(response, maxRepos) ==
  IF response.ok THEN Slice(firstByName(response.items), maxRepos) ELSE <<>>

\* the languages and names listAvailableRepos keeps ("" is a null language)
codeLanguages == {"JavaScript", "TypeScript", "Vue", "React", ""}

repoNameWords == <<"analytics", "tracking", "event">>

hasRepoNameWord(name) ==
  \E i \in 1..Len(repoNameWords) : Includes(ToLowerCase(name), repoNameWords[i])

\* response is what octokit.repos.listForOrg gave: [ok, repos]
listAvailableRepos(response) ==
  LET relevant(repo) ==
        repo.language \in codeLanguages \/ hasRepoNameWord(repo.name)
  IN IF response.ok THEN SelectSeq(response.repos, relevant) ELSE <<>>

\* repo.default_branch || "main"
refOf(repo) == IF repo.default_branch = "" THEN "main" ELSE repo.default_branch

\* the candidate branches with main ahead of the repository's own ref
branchesMainFirst(ref) ==
  <<"main", ref, "master", "develop", "development", "staging">>

branchesToTry(ref) ==
  <<ref, "main", "master", "develop", "development", "staging">>

\* orgResults.push({...})
repoResult(repo, repoEvents) ==
  [events |-> repoEvents,
   default_branch |-> repo.default_branch,
   repository |-> repo.name,
   events_found |-> Len(repoEvents)]

\* the end of the try block were the repository pushed whatever the scan
\* returned
scanReturnedUnguarded(lists, repo, repoEvents) ==
  [orgResults |-> Append(lists.orgResults, repoResult(repo, repoEvents)),
   processedRepos |-> Append(lists.processedRepos, repo.name),
   errorRepos |-> lists.errorRepos]

\* the three lists of the scan loop are [orgResults, processedRepos,
\* errorRepos]; the end of the try block after the scan returned repoEvents
scanReturned(lists, repo, repoEvents) ==
  [orgResults |-> IF Len(repoEvents) > 0
                    THEN Append(lists.orgResults, repoResult(repo, repoEvents))
                    ELSE lists.orgResults,
   processedRepos |-> Append(lists.processedRepos, repo.name),
   errorRepos |-> lists.errorRepos]

\* a catch block that also pushes the repository as processed
scanThrewButProcessed(lists, repo) ==
  [lists EXCEPT !.errorRepos = Append(@, repo.name),
                !.processedRepos = Append(@, repo.name)]

\* a catch block that pushes nothing
scanThrewSilently(lists, repo) == lists

\* the catch block of the scan loop
scanThrew(lists, repo) == [lists EXCEPT !.errorRepos = Append(@, repo.name)]

\* the result of the scan loop were it tagged as Phase 2's
exactMatchSuccessTaggedFailed(lists, eventName) ==
  [isError |-> FALSE,
   search_phase |-> "exact_match_failed",
   event_name |-> eventName,
   repositories_searched |-> Len(lists.processedRepos),
   repositories_with_event |-> Len(lists.orgResults)]

\* the result of Phase 1
exactMatchSuccess(lists, eventName) ==
  [isError |-> FALSE,
   search_phase |-> "exact_match_success",
   event_name |-> eventName,
   repositories_searched |-> Len(lists.processedRepos),
   repositories_with_event |-> Len(lists.orgResults),
   cross_repo_summary |-> analyzeCrossRepoPatterns(lists.orgResults, eventName),
   repository_results |-> lists.orgResults,
   processed_repositories |-> lists.processedRepos,
   error_repositories |-> lists.errorRepos]

\* the suggested_repos of the scan_specific_repos option
suggestedRepos(availableRepos) ==
  LET likely(repo) ==
        \/ hasRepoNameWord(repo.name)
        \/ repo.language \in {"TypeScript", "JavaScript"}
      names(repos) == [i \in 1..Len(repos) |-> repos[i].name]
  IN names(Slice(SelectSeq(availableRepos, likely), 5))

\* the result of Phase 2
exactMatchFailed(availableRepos, eventName) ==
  [repositories |-> availableRepos,
   isError |-> FALSE,
   search_phase |-> "exact_match_failed",
   event_name |-> eventName,
   repositories_searched |-> 0,
   repositories_with_event |-> 0,
   found |-> FALSE,
   total_found |-> Len(availableRepos),
   keywords_to_search |-> extractSearchTokens(eventName),
   suggested_repos |-> suggestedRepos(availableRepos)]

\* ------------------ scanRepoEvents.ts, repoWithEventHandler.ts: batches

\* const batchSize of scanRepoEventsHandler
repositoryBatchSize == 10

\* const batchSize of scanRepoForSpecificEvent
targetedBatchSize == 5

\* const maxFilesToScan of scanRepoForSpecificEvent
maxFilesToScan == 50

batchSize(scanner) ==
  IF scanner = "repository" THEN repositoryBatchSize ELSE targetedBatchSize

\* targetEvent.toLowerCase().split(/[\s\-_\.]+/).filter((w) => w.length > 2)
eventWordsOf(targetEvent) ==
  meaningful(Fields(ToLowerCase(targetEvent), Delimiters))

\* the paths the words of the event name add 10 for
wordHits(path, words) == {i \in 1..Len(words) : Includes(path, words[i])}

\* scoreA of the comparator, for a path in lower case
scoreOf(path, words) ==
  10 * Cardinality(wordHits(path, words))
  + (IF Includes(path, "dialog") \/ Includes(path, "modal") THEN 8 ELSE 0)
  + (IF \/ Includes(path, "analytic")
        \/ Includes(path, "track")
        \/ Includes(path, "event")
       THEN 5 ELSE 0)
  - (IF Includes(path, "test") \/ Includes(path, "spec") THEN 3 ELSE 0)

priorityScore(path, targetEvent) ==
  scoreOf(ToLowerCase(path), eventWordsOf(targetEvent))

\* the score of each file
scoresOf(files, targetEvent) ==
  SubSeq([i \in 1..Len(files) |-> priorityScore(files[i].path, targetEvent)],
         1, Len(files))

\* the sort left as it is: the files in the order of the tree
inTreeOrder(files, scores) == files

\* Array.prototype.sort with the comparator scoreB - scoreA: the higher
\* score first, files of one score in the order they had (the sort is
\* stable)
sortedByScore(files, scores) ==
  [n \in 1..Len(files) |->
     files[CHOOSE i \in 1..Len(files) :
             Cardinality({j \in 1..Len(files) :
                            \/ scores[j] > scores[i]
                            \/ (scores[j] = scores[i] /\ j < i)}) = n - 1]]

\* allFiles.sort((a, b) => ...)
prioritizedFiles(files, targetEvent) ==
  sortedByScore(files, scoresOf(files, targetEvent))

\* prioritizedFiles.slice(0, maxFilesToScan)
filesToScan(prioritized) == Slice(prioritized, maxFilesToScan)

\* the indices (1-based) of files.slice(i, i + batchSize)
batchAt(files, i, size) == (i + 1)..Min({i + size, Len(files)})

\* A file of the tree is [path, response, text]: octokit.repos.getContent
\* for it gives a content ("content", the decoded text), gives data with no
\* content field ("none"), or fails ("fails").
\* What the scanners gather is [allEvents, processedFiles, errorFiles,
\* foundEvents, extracted, env]; allEvents is matchingEvents in the targeted
\* scan, extracted the paths extractSegmentEvents was called with, and env
\* the builtins of the runtime replaced so far.

\* extractSegmentEvents(content, file.path) is called
extractionCalled(acc, file) == [acc EXCEPT !.extracted = @ \cup {file.path}]

\* scanRepoEventsHandler, the callback of batch.map once the extraction of
\* the file gave r: push the events and the path, or the catch block
fileExtracted(acc, file, r) ==
  IF r.raised
    THEN [acc EXCEPT !.errorFiles = Append(@, file.path), !.env = r.env]
    ELSE [acc EXCEPT !.allEvents = @ \o r.events,
                     !.processedFiles = Append(@, file.path),
                     !.env = r.env]

\* scanRepoEventsHandler, the callback of batch.map once the fetch of the
\* file settled
fileFetched(acc, file) ==
  IF file.response = "fails"
    THEN [acc EXCEPT !.errorFiles = Append(@, file.path)]
  ELSE IF file.response = "none" THEN acc
  ELSE fileExtracted(extractionCalled(acc, file), file,
                     extractSegmentEvents(file.text, file.path, acc.env))

\* the predicate of events.filter in the targeted scan
isTargetEvent(name, targetEvent) ==
  \/ name = targetEvent
  \/ Includes(name, targetEvent)
  \/ Includes(targetEvent, name)

targetEvents(events, targetEvent) ==
  LET matches(event) == isTargetEvent(event.name, targetEvent)
  IN SelectSeq(events, matches)

\* event.name.includes is called for an event of another name, and throws
\* when String.prototype.includes is replaced
targetFilterThrows(events, targetEvent, env) ==
  /\ "String.prototype.includes" \in env
  /\ \E i \in 1..Len(events) : events[i].name # targetEvent

\* the targetEvents are counted and pushed
targetsFound(acc, found, env) ==
  [acc EXCEPT !.foundEvents = @ + Len(found),
              !.allEvents = @ \o found,
              !.env = env]

\* scanRepoForSpecificEvent, the callback of batch.map once the extraction
\* of the file gave r; what throws is caught and logged, nothing is pushed
targetExtracted(acc, targetEvent, r) ==
  IF r.raised \/ targetFilterThrows(r.events, targetEvent, r.env)
    THEN [acc EXCEPT !.env = r.env]
    ELSE targetsFound(acc, targetEvents(r.events, targetEvent), r.env)

\* every file with a content goes to the extraction
noQuickCheck(content, targetEvent) == TRUE

\* content.includes(targetEvent)
quickCheck(content, targetEvent) == Includes(content, targetEvent)

\* scanRepoForSpecificEvent, the callback of batch.map once the fetch of
\* the file settled: the quick check content.includes(targetEvent), which
\* throws into the catch block when String.prototype.includes is replaced
targetFetched(acc, file, targetEvent) ==
  IF file.response # "content" THEN acc
  ELSE IF "String.prototype.includes" \in acc.env THEN acc
  ELSE IF ~quickCheck(file.text, targetEvent) THEN acc
  ELSE targetExtracted(extractionCalled(acc, file), targetEvent,
                       extractSegmentEvents(file.text, file.path, acc.env))

\* the callback of either scanner
fetchSettled(scanner, acc, file, targetEvent) ==
  IF scanner = "repository" THEN fileFetched(acc, file)
  ELSE targetFetched(acc, file, targetEvent)

\* [...new Set(allEvents.map((e) => e.name))].length
uniqueEventNames(allEvents) ==
  Cardinality({allEvents[i].name : i \in 1..Len(allEvents)})

\* analyzeEvents(allEvents) calls event.name.includes and props.filter for
\* each event: with an event and one of them replaced it throws
analysisThrows(acc) ==
  /\ acc.allEvents # <<>>
  /\ acc.env \cap {"String.prototype.includes", "Array.prototype.filter"} # {}

\* the end of scanRepoEventsHandler: the result, or raised when the analysis
\* throws and the catch block rethrows
scanRepoEventsResult(acc) ==
  IF analysisThrows(acc) THEN [raised |-> TRUE]
  ELSE [raised |-> FALSE,
        isError |-> FALSE,
        total_files_scanned |-> Len(acc.processedFiles),
        total_events_found |-> Len(acc.allEvents),
        unique_event_names |-> uniqueEventNames(acc.allEvents),
        files_with_errors |-> Len(acc.errorFiles),
        all_events |-> acc.allEvents,
        analysis |-> analyzeEvents(acc.allEvents),
        processed_files |-> acc.processedFiles,
        error_files |-> acc.errorFiles]

\* the end of scanRepoForSpecificEvent: return matchingEvents
targetedScanResult(acc) == [raised |-> FALSE, matchingEvents |-> acc.allEvents]

scanResultOf(scanner, acc) ==
  IF scanner = "repository" THEN scanRepoEventsResult(acc)
  ELSE targetedScanResult(acc)

\* ------------------------------------- index.ts: the tool-call dispatcher

\* the cases of the switch
toolNames ==
  <<"scan_repo_events", "search_org_event", "extract_events_from_file",
    "analyze_pr_events", "suggest_event_improvements",
    "create_event_documentation", "validate_event_schema">>

\* the requests to the code-hosting service the handler of a tool makes
upstreamCalls(name) ==
  CASE name = "scan_repo_events" -> {"git.getTree", "repos.getContent"}
    [] name = "search_org_event" ->
         {"search.code", "git.getTree", "repos.getContent", "repos.listForOrg"}
    [] name = "extract_events_from_file" -> {"repos.getContent"}
    [] name = "analyze_pr_events" -> {"pulls.listFiles", "repos.getContent"}
    [] OTHER -> {}

\* the requests whose failure the handler catches and does not rethrow: the
\* fetch of a file in the two scans of files, and every request of the
\* organization search (the code search and the listing return [], the scan
\* of a repository is caught by the loop)
caughtCalls(name) ==
  CASE name = "scan_repo_events" -> {"repos.getContent"}
    [] name = "search_org_event" ->
         {"search.code", "git.getTree", "repos.getContent", "repos.listForOrg"}
    [] name = "analyze_pr_events" -> {"repos.getContent"}
    [] OTHER -> {}

\* a thrown value: an Error with its message, or another value
Error(message) == [message |-> message, instanceOfError |-> TRUE]

NotAnError(value) == [instanceOfError |-> FALSE, value |-> value]

\* the first field the schema of the tool requires
requiredField(name) ==
  CASE name = "search_org_event" -> "org"
    [] name \in {"suggest_event_improvements", "validate_event_schema"} ->
         "events"
    [] OTHER -> "owner"

\* the ZodError of Schema.parse(args) for arguments without that field
zodError(name) ==
  Error("[{\"code\":\"invalid_type\",\"path\":[\"" \o requiredField(name)
        \o "\"],\"message\":\"Required\"}]")

\* what the handler itself throws, its requests answered: no content in the
\* answer, an include pattern that is no regular expression, an extraction
\* or an analysis that throws
handlerErrors(name) ==
  CASE name = "extract_events_from_file" ->
         {Error("File not found or is a directory"),
          Error("events.filter is not a function")}
    [] name = "scan_repo_events" ->
         {Error("Invalid regular expression: /[/: Unterminated character class"),
          Error("props.filter is not a function")}
    [] OTHER -> {}

\* default: throw new Error
unknownTool(name) == Error("Unknown tool: " \o name)

\* error instanceof Error ? error.message : String(error)
errorMessage(error) ==
  IF error.instanceOfError THEN error.message ELSE error.value

\* the result of the catch block of the dispatcher
errorResult(error) ==
  [text |-> "Error: " \o errorMessage(error), isError |-> TRUE]

\* the result a handler returns
handlerResult(name) == [text |-> "{ \"tool\": \"" \o name \o "\" }", isError |-> FALSE]

\* what the handler, or the switch, ended with
Threw(kind, error) ==
  [threw |-> TRUE, error |-> error, kind |-> kind,
   result |-> [text |-> "", isError |-> FALSE]]

Returned(result) ==
  [threw |-> FALSE, error |-> Error(""), kind |-> "", result |-> result]

\* a dispatcher that lets what is thrown pass
rethrown(outcome) ==
  [result |-> outcome.result,
   step |-> IF outcome.threw THEN "raised" ELSE "done",
   thrown |-> outcome.kind]

\* the try and the catch of the dispatcher around the switch
dispatched(outcome) ==
  [result |-> IF outcome.threw THEN errorResult(outcome.error)
                               ELSE outcome.result,
   step |-> "done",
   thrown |-> outcome.kind]

\* ------------------------------------------------------------ inputs

\* The contents the extraction is run on: each source line alone, and the
\* two-line contents of LinePairs (source line numbers).
LinePairs ==
  { <<4, 6>>,    \* includes is replaced on line 1; line 2 has a match
    <<5, 4>>,    \* console.warn is replaced, then a match throws
    <<3, 2>>,    \* filter is replaced; line 2 has an exact match
    <<8, 6>>,    \* line 2 lies after a call and an if
    <<1, 1>>,    \* the same text on two lines
    <<6, 9>>,
    <<10, 7>>,
    <<12, 11>> }

Contents ==
  {SourceLines[i] : i \in 1..Len(SourceLines)}
  \cup {SourceLines[q[1]] \o LineFeed \o SourceLines[q[2]] : q \in LinePairs}

Filenames == {"src/app.ts", "lib/analytics.js"}

\* The event names of the token extraction: the concatenations of at most
\* MaxPieces pieces.
NamePieces == <<"userSign", "_", "up", " ", "the", "Add">>

MaxPieces == 3

RECURSIVE NamesOf(_)
NamesOf(n) ==
  IF n = 0 THEN {""}
  ELSE {x \o NamePieces[i] : x \in NamesOf(n - 1), i \in 1..Len(NamePieces)}
       \cup {""}

Names == NamesOf(MaxPieces)

\* a candidate as the cascade emits it for a track call in file
trackEvent(name, file, properties) ==
  [properties |->
     Spread(properties,
            <<[k |-> "_analytics_type", v |-> Str("track")],
              [k |-> "_context", v |-> Str("direct")],
              [k |-> "_file_type", v |-> Str(getFileType(file))]>>),
   name |-> name,
   location |-> [line |-> 1, file |-> file]]

\* The matched candidates of the cross-repo analysis.
MatchedEvents ==
  { trackEvent("Plan Picked", "src/plans.ts",
               <<[k |-> "userId", v |-> Num(1)], [k |-> "plan", v |-> Str("pro")]>>),
    trackEvent("Plan Picked", "src/billing.ts",
               <<[k |-> "plan", v |-> Str("pro")], [k |-> "userId", v |-> Num(2)]>>),
    trackEvent("Plan Picked", "lib/legacy.js",
               <<[k |-> "user_id", v |-> Num(1)]>>),
    trackEvent("Plan Picked", "lib/legacy.js",
               <<[k |-> "user-id", v |-> Num(1)]>>),
    trackEvent("Plan Picked", "src/plans.ts",
               <<[k |-> "userId", v |-> Num(1)]>>),
    trackEvent("Plan Picked", "app/page.tsx", <<>>) }

MaxEvents == 3

\* The candidates of the quality report: [name, properties].
manyProperties ==
  [i \in 1..16 |-> [k |-> "field_" \o ToString(i), v |-> Num(i)]]

Candidates ==
  { [properties |-> <<[k |-> "id", v |-> Num(1)],
                      [k |-> "timestamp", v |-> Num(2)]>>,
     name |-> "Signed Up"],
    [properties |-> <<>>, name |-> "Signed Up"],
    [properties |-> manyProperties, name |-> "sign_up"],
    [properties |-> <<[k |-> "user_id", v |-> Num(1)]>>, name |-> "order-done"],
    [properties |-> <<[k |-> "userId", v |-> Num(1)]>>, name |-> "Plan Picked"],
    [properties |-> <<[k |-> "time", v |-> Num(1)]>>, name |-> "plan picked"],
    [properties |-> <<[k |-> "ID", v |-> Num(1)]>>, name |-> "Cart Viewed"] }

MaxAnalyzed == 3

\* The repositories of the organization, as the code-hosting service
\* describes them ("" is null).
Repositories ==
  << [name |-> "web-analytics", language |-> "Go", default_branch |-> "trunk",
      archived |-> FALSE],
     [name |-> "api", language |-> "TypeScript", default_branch |-> "main",
      archived |-> TRUE],
     [name |-> "docs", language |-> "HTML", default_branch |-> "",
      archived |-> FALSE] >>

\* the hits of a code search: at most MaxItems items, each in a repository
MaxItems == 2

RECURSIVE ItemsOf(_)
ItemsOf(n) ==
  IF n = 0 THEN {<<>>}
  ELSE {Append(x, Repositories[i]) :
          x \in ItemsOf(n - 1), i \in 1..Len(Repositories)}
       \cup {<<>>}

SearchResponses ==
  {[ok |-> TRUE, items |-> x] : x \in ItemsOf(MaxItems)}
  \cup {[ok |-> FALSE, items |-> <<>>]}

\* octokit.repos.listForOrg with per_page: the first per_page repositories,
\* or a failure (per_page below 1 is refused)
ListResponses(per_page) ==
  {[ok |-> FALSE, repos |-> <<>>]}
  \cup (IF per_page >= 1
          THEN {[ok |-> TRUE, repos |-> Slice(Repositories, per_page)]}
          ELSE {})

OrgEventNames == {"", "ab", "the", "Add it", "User Signed Up"}

MaxReposValues == {0, 1, 2}

\* how many files a targeted scan fetches
FetchedCounts == {0, 2}

\* what the targeted scan of a repository can return
FoundLists ==
  {<<>>,
   <<trackEvent("User Signed Up", "src/signup.ts",
                <<[k |-> "userId", v |-> Num(1)]>>)>>,
   <<trackEvent("User Signed Up", "src/signup.ts",
                <<[k |-> "userId", v |-> Num(1)]>>),
     trackEvent("User Signed Up", "lib/legacy.js",
                <<[k |-> "user_id", v |-> Num(1)]>>)>>}

\* the files of a tree, by what octokit.repos.getContent answers for them
contentFile(path, text) == [text |-> text, response |-> "content", path |-> path]

noContent(path) == [text |-> "", response |-> "none", path |-> path]

failingFile(path) == [text |-> "", response |-> "fails", path |-> path]

\* seven entries for which getContent gives data with no content field
links == [k \in 1..7 |-> noContent("link/" \o ToString(k))]

signUpFile == contentFile("src/signup.ts", SourceLines[2])

legacyFile == contentFile("lib/legacy.js", SourceLines[2])

\* its first line replaces Array.prototype.filter, its second tracks
bootFile ==
  contentFile("src/boot.ts", SourceLines[3] \o LineFeed \o SourceLines[2])

\* the target event on its first line, a key with a string on its second
mixedFile ==
  contentFile("src/form.ts", SourceLines[2] \o LineFeed \o SourceLines[9])

plainFile(n) == contentFile("doc/" \o ToString(n) \o ".ts", SourceLines[12])

goneFile == failingFile("src/gone.ts")

\* the relevantFiles of a repository scan: eleven files, so that the batch
\* of ten is followed by a second
RepositoryTrees ==
  { links \o <<signUpFile, goneFile, plainFile(1), legacyFile>>,
    links \o <<signUpFile, bootFile, goneFile, plainFile(1)>> }

\* more files than maxFilesToScan (52), of seven scores for the target
\* event User Signed Up, the lower scores first; none has a content
manyFiles ==
  <<noContent("test/1")>>
  \o [k \in 1..11 |-> noContent("lib/" \o ToString(k))]
  \o <<noContent("spec/track.ts")>>
  \o [k \in 1..20 |-> noContent("events/" \o ToString(k))]
  \o [k \in 1..10 |-> noContent("user/" \o ToString(k))]
  \o [k \in 1..8 |-> noContent("modal/User/" \o ToString(k))]
  \o <<noContent("src/signed/user/dialog.ts")>>

\* the allFiles of a targeted scan: more than one batch of five
TargetedTrees ==
  { manyFiles,
    <<plainFile(1), mixedFile>>,
    <<plainFile(1), goneFile, links[1], plainFile(2), plainFile(3),
      signUpFile>>,
    <<bootFile, signUpFile, plainFile(1), goneFile, links[1], legacyFile>>,
    <<signUpFile, legacyFile, plainFile(1), goneFile, links[1], plainFile(2),
      bootFile>> }

TargetEvents == {"User Signed Up"}

\* the names a tool call carries: the seven tools and two others
CalledNames == Range(toolNames) \cup {"scan_repo", ""}

\* what a failing request throws
UpstreamErrors ==
  {Error("Not Found"), Error("API rate limit exceeded"),
   NotAnError("socket hang up")}

\* the failures a handler catches in one call, at most
MaxCaught == 3

\* ------------------------------------------------------- the state

VARIABLES
  \* extractSegmentEvents
  pc,        \* "idle", or how the last call ended: "returned", "raised"
  content,   \* the last call's content
  filename,  \* the last call's filename
  events,    \* the list the last call returned
  emitted,   \* what the cascade of the last call pushed, before the
             \* deduplication
  runtime,   \* the builtins of the JavaScript runtime replaced so far
  \* extractSearchTokens
  tokenStep,   \* "named", "split", "resplit"
  eventName,   \* the event name
  tokens,      \* extractSearchTokens(eventName)
  retokens,    \* extractSearchTokens of the tokens joined by spaces
  \* analyzeEvents
  analysed,  \* the list of candidates
  report,    \* analyzeEvents(analysed)
  \* analyzeCrossRepoPatterns
  crossStep,     \* "collecting", "summarized"
  matched,       \* the orgResults the analysis is given
  crossSummary,  \* what it returns
  \* searchOrgEvent
  opc,              \* where the call is
  event_name,
  max_repos,
  requests,         \* the requests made to the code-hosting service, in order
  exactMatchRepos,
  repoIndex,        \* the repository of the for loop (1-based)
  branchIndex,      \* the branch of branchesToTry being tried (1-based)
  successfulBranch,
  scanLists,        \* [orgResults, processedRepos, errorRepos]
  result,           \* the CallToolResult
  \* scanRepoEventsHandler and scanRepoForSpecificEvent
  scanner,          \* "repository" or "targeted"
  spc,              \* where the scan is
  allFiles,         \* the files of the tree that the filter keeps
  toScan,           \* relevantFiles, or filesToScan
  scanTarget,       \* targetEvent
  batchStart,       \* i of the for loop
  inFlight,         \* the files (indices of toScan) whose content is
                    \* requested and whose request has not settled
  scanEvents,       \* allEvents, or matchingEvents
  processedFiles,
  errorFiles,
  foundEvents,
  extracted,        \* the paths extractSegmentEvents was called with
  scanResult,       \* what the scan returned
  \* the tool-call dispatcher
  toolName,         \* request.params.name
  toolStep,         \* "idle", "parsing", "handling", "done", "raised"
  absorbed,         \* the requests that failed and whose failure the
                    \* handler caught, in order
  thrown,           \* the kind of failure that left the handler or the
                    \* switch: "schema", "upstream", "handler", "unknown"
  toolResult        \* the CallToolResult of the dispatcher

extractionVars == <<pc, content, filename, events, emitted, runtime>>

tokenVars == <<tokenStep, eventName, tokens, retokens>>

analysisVars == <<analysed, report>>

crossVars == <<crossStep, matched, crossSummary>>

orgVars ==
  <<opc, event_name, max_repos, requests, exactMatchRepos, repoIndex,
    branchIndex, successfulBranch, scanLists, result>>

scanVars ==
  <<scanner, spc, allFiles, toScan, scanTarget, batchStart, inFlight,
    scanEvents, processedFiles, errorFiles, foundEvents, extracted,
    scanResult>>

toolVars == <<toolName, toolStep, absorbed, thrown, toolResult>>

vars ==
  <<extractionVars, tokenVars, analysisVars, crossVars, orgVars, scanVars,
    toolVars>>

NoResult == [isError |-> FALSE, search_phase |-> ""]

NoSummary == [total_occurrences |-> -1]

\* the parts of the state a specification does not use stay as they start
ExtractionIdle ==
  /\ pc = "idle"
  /\ content = ""
  /\ filename = ""
  /\ events = <<>>
  /\ emitted = <<>>
  /\ runtime = {}

TokensIdle ==
  /\ tokenStep = "named"
  /\ eventName = ""
  /\ tokens = <<>>
  /\ retokens = <<>>

AnalysisIdle ==
  /\ analysed = <<>>
  /\ report = analyzeEvents(<<>>)

CrossIdle ==
  /\ crossStep = "collecting"
  /\ matched = <<>>
  /\ crossSummary = NoSummary

OrgIdle ==
  /\ opc = "idle"
  /\ event_name = ""
  /\ max_repos = 0
  /\ requests = <<>>
  /\ exactMatchRepos = <<>>
  /\ repoIndex = 0
  /\ branchIndex = 0
  /\ successfulBranch = ""
  /\ scanLists = [orgResults |-> <<>>, processedRepos |-> <<>>,
                  errorRepos |-> <<>>]
  /\ result = NoResult

NoScanResult == [raised |-> FALSE]

ScanIdle ==
  /\ scanner = "repository"
  /\ spc = "idle"
  /\ allFiles = <<>>
  /\ toScan = <<>>
  /\ scanTarget = ""
  /\ batchStart = 0
  /\ inFlight = {}
  /\ scanEvents = <<>>
  /\ processedFiles = <<>>
  /\ errorFiles = <<>>
  /\ foundEvents = 0
  /\ extracted = {}
  /\ scanResult = NoScanResult

NoToolResult == [text |-> "", isError |-> FALSE]

ToolsIdle ==
  /\ toolName = ""
  /\ toolStep = "idle"
  /\ absorbed = <<>>
  /\ thrown = ""
  /\ toolResult = NoToolResult

\* ------------------------------------------- extractSegmentEvents calls

Init ==
  /\ ExtractionIdle /\ TokensIdle /\ AnalysisIdle /\ CrossIdle /\ OrgIdle
  /\ ScanIdle /\ ToolsIdle

\* one call of extractSegmentEvents(c, f)
Extract(c, f) ==
  \E r \in {extractSegmentEvents(c, f, runtime)} :
    /\ pc' = IF r.raised THEN "raised" ELSE "returned"
    /\ content' = c
    /\ filename' = f
    /\ events' = r.events
    /\ emitted' = cascadePass(Split(c, LineFeed), f, runtime)
    /\ runtime' = r.env
    /\ UNCHANGED <<tokenVars, analysisVars, crossVars, orgVars, scanVars,
                 toolVars>>

Next == \E c \in Contents, f \in Filenames : Extract(c, f)

Spec == Init /\ [][Next]_vars

\* -------------------------------------------- extractSearchTokens calls

TokensInit ==
  /\ tokenStep = "named"
  /\ eventName \in Names
  /\ tokens = <<>>
  /\ retokens = <<>>
  /\ ExtractionIdle /\ AnalysisIdle /\ CrossIdle /\ OrgIdle /\ ScanIdle
  /\ ToolsIdle

\* extractSearchTokens(eventName)
Tokenize ==
  /\ tokenStep = "named"
  /\ tokens' = extractSearchTokens(eventName)
  /\ tokenStep' = "split"
  /\ UNCHANGED <<eventName, retokens>>
  /\ UNCHANGED <<extractionVars, analysisVars, crossVars, orgVars, scanVars,
                 toolVars>>

\* extractSearchTokens(tokens.join(" "))
Retokenize ==
  /\ tokenStep = "split"
  /\ retokens' = extractSearchTokens(Join(tokens, " "))
  /\ tokenStep' = "resplit"
  /\ UNCHANGED <<eventName, tokens>>
  /\ UNCHANGED <<extractionVars, analysisVars, crossVars, orgVars, scanVars,
                 toolVars>>

TokensNext == Tokenize \/ Retokenize

SpecTokens == TokensInit /\ [][TokensNext]_vars

\* -------------------------------------------------- analyzeEvents calls

\* analyzeEvents of the list with one more candidate
AnalyzeAppended(c) ==
  /\ Len(analysed) < MaxAnalyzed
  /\ analysed' = Append(analysed, c)
  /\ report' = analyzeEvents(Append(analysed, c))
  /\ UNCHANGED <<extractionVars, tokenVars, crossVars, orgVars, scanVars,
                 toolVars>>

AnalysisNext == \E c \in Candidates : AnalyzeAppended(c)

SpecAnalysis == Init /\ [][AnalysisNext]_vars

\* --------------------------------------- analyzeCrossRepoPatterns calls

\* one more repository with a matched candidate
Collect(e) ==
  /\ crossStep = "collecting"
  /\ Len(matched) < MaxEvents
  /\ matched' =
       Append(matched,
              repoResult([name |-> "repo-" \o ToString(Len(matched) + 1),
                          default_branch |-> "main"],
                         <<e>>))
  /\ UNCHANGED <<crossStep, crossSummary>>
  /\ UNCHANGED <<extractionVars, tokenVars, analysisVars, orgVars, scanVars,
                 toolVars>>

Summarize ==
  /\ crossStep = "collecting"
  /\ crossSummary' = analyzeCrossRepoPatterns(matched, "Plan Picked")
  /\ crossStep' = "summarized"
  /\ UNCHANGED matched
  /\ UNCHANGED <<extractionVars, tokenVars, analysisVars, orgVars, scanVars,
                 toolVars>>

CrossNext == (\E e \in MatchedEvents : Collect(e)) \/ Summarize

SpecCross == Init /\ [][CrossNext]_vars

\* ------------------------------------------------- searchOrgEvent calls

\* a request to the code-hosting service and whether it succeeded; hits is
\* the number of distinct repositories a code search answered with
Request(api, repo, ref, ok) ==
  [ok |-> ok, repo |-> repo, ref |-> ref, api |-> api, hits |-> 0]

\* the request of octokit.search.code, answered by response
SearchRequest(response) ==
  [Request("search.code", "", "", response.ok)
     EXCEPT !.hits = Len(firstByName(response.items))]

\* the requests of octokit.repos.getContent of one targeted scan
ContentRequests(repo, ref, fetched) ==
  [k \in 1..fetched |-> Request("repos.getContent", repo, ref, TRUE)]

\* the repository and the branch the scan is at
currentRepo == exactMatchRepos[repoIndex]

currentBranch == branchesToTry(refOf(currentRepo))[branchIndex]

\* SearchOrgEventSchema.parse(args) of arguments that fit the schema
StartSearch(name, max) ==
  /\ opc = "idle"
  /\ event_name' = name
  /\ max_repos' = max
  /\ opc' = "phase1"
  /\ UNCHANGED <<requests, exactMatchRepos, repoIndex, branchIndex,
                 successfulBranch, scanLists, result>>
  /\ UNCHANGED <<extractionVars, tokenVars, analysisVars, crossVars, scanVars,
                 toolVars>>

\* SearchOrgEventSchema.parse(args) throws on arguments that do not
RejectArguments ==
  /\ opc = "idle"
  /\ opc' = "raised"
  /\ UNCHANGED <<event_name, max_repos, requests, exactMatchRepos, repoIndex,
                 branchIndex, successfulBranch, scanLists, result>>
  /\ UNCHANGED <<extractionVars, tokenVars, analysisVars, crossVars, scanVars,
                 toolVars>>

\* PHASE 1: findReposWithExactMatch, its code search answered by response
ExactSearch(response) ==
  /\ opc = "phase1"
  /\ requests' = Append(requests, SearchRequest(response))
  /\ \E repos \in {findReposWithExactMatch(response, max_repos)} :
       /\ exactMatchRepos' = repos
       /\ opc' = IF Len(repos) > 0 THEN "loop" ELSE "phase2"
  /\ repoIndex' = 1
  /\ UNCHANGED <<event_name, max_repos, branchIndex, successfulBranch,
                 scanLists, result>>
  /\ UNCHANGED <<extractionVars, tokenVars, analysisVars, crossVars, scanVars,
                 toolVars>>

\* for (const repo of exactMatchRepos): scanRepoForSpecificEvent is called
BeginScan ==
  /\ opc = "loop"
  /\ repoIndex <= Len(exactMatchRepos)
  /\ branchIndex' = 1
  /\ successfulBranch' = ""
  /\ opc' = "tree"
  /\ UNCHANGED <<event_name, max_repos, requests, exactMatchRepos, repoIndex,
                 scanLists, result>>
  /\ UNCHANGED <<extractionVars, tokenVars, analysisVars, crossVars, scanVars,
                 toolVars>>

\* octokit.git.getTree fails for the branch: the next branch is tried, and
\* after the last one the scan throws, which the loop catches
TreeFails ==
  /\ opc = "tree"
  /\ requests' = Append(requests,
                        Request("git.getTree", currentRepo.name, currentBranch,
                                FALSE))
  /\ IF branchIndex < Len(branchesToTry(refOf(currentRepo)))
       THEN /\ branchIndex' = branchIndex + 1
            /\ UNCHANGED <<opc, repoIndex, scanLists>>
       ELSE /\ scanLists' = scanThrew(scanLists, currentRepo)
            /\ repoIndex' = repoIndex + 1
            /\ opc' = "loop"
            /\ UNCHANGED branchIndex
  /\ UNCHANGED <<event_name, max_repos, exactMatchRepos, successfulBranch,
                 result>>
  /\ UNCHANGED <<extractionVars, tokenVars, analysisVars, crossVars, scanVars,
                 toolVars>>

\* octokit.git.getTree gives the tree of the branch
TreeResolves ==
  /\ opc = "tree"
  /\ requests' = Append(requests,
                        Request("git.getTree", currentRepo.name, currentBranch,
                                TRUE))
  /\ successfulBranch' = currentBranch
  /\ opc' = "files"
  /\ UNCHANGED <<event_name, max_repos, exactMatchRepos, repoIndex,
                 branchIndex, scanLists, result>>
  /\ UNCHANGED <<extractionVars, tokenVars, analysisVars, crossVars, scanVars,
                 toolVars>>

\* the files of the tree are scanned, the content of fetched of them is
\* requested, and the scan returns matchingEvents, which come from a
\* fetched file
ScanFiles(fetched, matchingEvents) ==
  /\ opc = "files"
  /\ matchingEvents # <<>> => fetched > 0
  /\ requests' = requests \o ContentRequests(currentRepo.name, successfulBranch,
                                              fetched)
  /\ scanLists' = scanReturned(scanLists, currentRepo, matchingEvents)
  /\ repoIndex' = repoIndex + 1
  /\ opc' = "loop"
  /\ UNCHANGED <<event_name, max_repos, exactMatchRepos,
                 branchIndex, successfulBranch, result>>
  /\ UNCHANGED <<extractionVars, tokenVars, analysisVars, crossVars, scanVars,
                 toolVars>>

\* the choice of the files throws (an include pattern that is no regular
\* expression); the scan rethrows and the loop catches
ScanThrows ==
  /\ opc = "files"
  /\ scanLists' = scanThrew(scanLists, currentRepo)
  /\ repoIndex' = repoIndex + 1
  /\ opc' = "loop"
  /\ UNCHANGED <<event_name, max_repos, requests, exactMatchRepos,
                 branchIndex, successfulBranch, result>>
  /\ UNCHANGED <<extractionVars, tokenVars, analysisVars, crossVars, scanVars,
                 toolVars>>

\* the loop is over: the result of Phase 1
ReturnMatches ==
  /\ opc = "loop"
  /\ repoIndex > Len(exactMatchRepos)
  /\ result' = exactMatchSuccess(scanLists, event_name)
  /\ opc' = "done"
  /\ UNCHANGED <<event_name, max_repos, requests, exactMatchRepos, repoIndex,
                 branchIndex, successfulBranch, scanLists>>
  /\ UNCHANGED <<extractionVars, tokenVars, analysisVars, crossVars, scanVars,
                 toolVars>>

\* PHASE 2: listAvailableRepos, its listing answered by response, and the
\* guidance
ListRepositories(response) ==
  /\ opc = "phase2"
  /\ requests' = Append(requests,
                        Request("repos.listForOrg", "", "", response.ok))
  /\ result' = exactMatchFailed(listAvailableRepos(response), event_name)
  /\ opc' = "done"
  /\ UNCHANGED <<event_name, max_repos, exactMatchRepos, repoIndex,
                 branchIndex, successfulBranch, scanLists>>
  /\ UNCHANGED <<extractionVars, tokenVars, analysisVars, crossVars, scanVars,
                 toolVars>>

OrgNext ==
  \/ \E name \in OrgEventNames, max \in MaxReposValues : StartSearch(name, max)
  \/ RejectArguments
  \/ \E response \in SearchResponses : ExactSearch(response)
  \/ BeginScan
  \/ TreeFails
  \/ TreeResolves
  \/ \E fetched \in FetchedCounts, matchingEvents \in FoundLists :
       ScanFiles(fetched, matchingEvents)
  \/ ScanThrows
  \/ ReturnMatches
  \/ \E response \in ListResponses(Min({max_repos, 100})) :
       ListRepositories(response)

SpecOrg == Init /\ [][OrgNext]_vars

\* ------------------------------------------------- the batch scanners

\* what the scan has gathered so far
gathered ==
  [env |-> runtime, allEvents |-> scanEvents,
   extracted |-> extracted, errorFiles |-> errorFiles,
   processedFiles |-> processedFiles, foundEvents |-> foundEvents]

\* a scan of either kind at the head of its for loop, the tree fetched and
\* its files chosen
ScanInit ==
  /\ scanner \in {"repository", "targeted"}
  /\ scanTarget \in (IF scanner = "repository" THEN {""} ELSE TargetEvents)
  /\ allFiles \in (IF scanner = "repository" THEN RepositoryTrees
                                             ELSE TargetedTrees)
  /\ toScan = IF scanner = "repository"
                THEN allFiles
                ELSE filesToScan(prioritizedFiles(allFiles, scanTarget))
  /\ spc = "loop"
  /\ batchStart = 0
  /\ inFlight = {}
  /\ scanEvents = <<>>
  /\ processedFiles = <<>>
  /\ errorFiles = <<>>
  /\ foundEvents = 0
  /\ extracted = {}
  /\ scanResult = NoScanResult
  /\ ExtractionIdle /\ TokensIdle /\ AnalysisIdle /\ CrossIdle /\ OrgIdle
  /\ ToolsIdle

\* batch.map(async (file) => ...): each callback runs to its await of
\* octokit.repos.getContent, so the requests of the batch are all issued
IssueBatch ==
  /\ spc = "loop"
  /\ batchStart < Len(toScan)
  /\ inFlight' = inFlight \cup batchAt(toScan, batchStart, batchSize(scanner))
  /\ spc' = "fetching"
  /\ UNCHANGED <<scanner, allFiles, toScan, scanTarget, batchStart,
                 scanEvents, processedFiles, errorFiles, foundEvents,
                 extracted, scanResult>>
  /\ UNCHANGED <<extractionVars, tokenVars, analysisVars, crossVars, orgVars,
                 toolVars>>

\* the request for file k settles and the rest of its callback runs, with
\* no await in it
FetchSettles(k) ==
  /\ k \in inFlight
  /\ inFlight' = inFlight \ {k}
  /\ \E acc \in {fetchSettled(scanner, gathered, toScan[k], scanTarget)} :
       /\ scanEvents' = acc.allEvents
       /\ processedFiles' = acc.processedFiles
       /\ errorFiles' = acc.errorFiles
       /\ foundEvents' = acc.foundEvents
       /\ extracted' = acc.extracted
       /\ runtime' = acc.env
  /\ UNCHANGED <<scanner, spc, allFiles, toScan, scanTarget, batchStart,
                 scanResult>>
  /\ UNCHANGED <<pc, content, filename, events, emitted>>
  /\ UNCHANGED <<tokenVars, analysisVars, crossVars, orgVars,
                 toolVars>>

\* the batch goes on without waiting for its requests
notAwaited == TRUE

\* await Promise.all(...): every promise of the batch is resolved (none
\* rejects, each callback catching what it throws)
awaitAll == inFlight = {}

\* the await of Promise.all returns; the targeted scan then waits 500 ms
\* when another batch is left
BatchSettled ==
  /\ spc = "fetching"
  /\ awaitAll
  /\ spc' = IF /\ scanner = "targeted"
               /\ batchStart + batchSize(scanner) < Len(toScan)
              THEN "delay"
              ELSE "settled"
  /\ UNCHANGED <<scanner, allFiles, toScan, scanTarget, batchStart, inFlight,
                 scanEvents, processedFiles, errorFiles, foundEvents,
                 extracted, scanResult>>
  /\ UNCHANGED <<extractionVars, tokenVars, analysisVars, crossVars, orgVars,
                 toolVars>>

\* the timer of the delay between two batches fires
DelayElapsed ==
  /\ spc = "delay"
  /\ spc' = "settled"
  /\ UNCHANGED <<scanner, allFiles, toScan, scanTarget, batchStart, inFlight,
                 scanEvents, processedFiles, errorFiles, foundEvents,
                 extracted, scanResult>>
  /\ UNCHANGED <<extractionVars, tokenVars, analysisVars, crossVars, orgVars,
                 toolVars>>

\* the scan goes through every batch
neverExits == FALSE

\* if (foundEvents > 0) break, of the targeted scan
earlyExit == scanner = "targeted" /\ foundEvents > 0

\* the end of the loop body: break, or i += batchSize
NextBatch ==
  /\ spc = "settled"
  /\ IF earlyExit
       THEN spc' = "exit" /\ UNCHANGED batchStart
       ELSE spc' = "loop" /\ batchStart' = batchStart + batchSize(scanner)
  /\ UNCHANGED <<scanner, allFiles, toScan, scanTarget, inFlight, scanEvents,
                 processedFiles, errorFiles, foundEvents, extracted,
                 scanResult>>
  /\ UNCHANGED <<extractionVars, tokenVars, analysisVars, crossVars, orgVars,
                 toolVars>>

\* after the loop: the result is built and returned, or the scan throws
ScanReturns ==
  /\ spc = "exit" \/ (spc = "loop" /\ batchStart >= Len(toScan))
  /\ \E r \in {scanResultOf(scanner, gathered)} :
       /\ scanResult' = r
       /\ spc' = IF r.raised THEN "raised" ELSE "done"
  /\ UNCHANGED <<scanner, allFiles, toScan, scanTarget, batchStart, inFlight,
                 scanEvents, processedFiles, errorFiles, foundEvents,
                 extracted>>
  /\ UNCHANGED <<extractionVars, tokenVars, analysisVars, crossVars, orgVars,
                 toolVars>>

ScanNext ==
  \/ IssueBatch
  \/ \E k \in 1..Len(toScan) : FetchSettles(k)
  \/ BatchSettled
  \/ DelayElapsed
  \/ NextBatch
  \/ ScanReturns

SpecScan == ScanInit /\ [][ScanNext]_vars

\* --------------------------------------------------------- tool calls

\* the dispatcher ends the call with what the handler, or the switch, ended
\* with
Dispatch(outcome) ==
  \E d \in {dispatched(outcome)} :
    /\ toolStep' = d.step
    /\ thrown' = d.thrown
    /\ toolResult' = d.result

\* a call of a name that is no case of the switch: the default throws
CallUnknown(name) ==
  /\ toolStep = "idle"
  /\ name \notin Range(toolNames)
  /\ toolName' = name
  /\ Dispatch(Threw("unknown", unknownTool(name)))
  /\ UNCHANGED absorbed
  /\ UNCHANGED <<extractionVars, tokenVars, analysisVars, crossVars, orgVars,
                 scanVars>>

\* a call of a tool: its handler is called
CallTool(name) ==
  /\ toolStep = "idle"
  /\ name \in Range(toolNames)
  /\ toolName' = name
  /\ toolStep' = "parsing"
  /\ UNCHANGED <<absorbed, thrown, toolResult>>
  /\ UNCHANGED <<extractionVars, tokenVars, analysisVars, crossVars, orgVars,
                 scanVars>>

\* Schema.parse(args), before the try of the handler, throws
SchemaRejects ==
  /\ toolStep = "parsing"
  /\ Dispatch(Threw("schema", zodError(toolName)))
  /\ UNCHANGED <<toolName, absorbed>>
  /\ UNCHANGED <<extractionVars, tokenVars, analysisVars, crossVars, orgVars,
                 scanVars>>

\* Schema.parse(args) returns the arguments
SchemaAccepts ==
  /\ toolStep = "parsing"
  /\ toolStep' = "handling"
  /\ UNCHANGED <<toolName, absorbed, thrown, toolResult>>
  /\ UNCHANGED <<extractionVars, tokenVars, analysisVars, crossVars, orgVars,
                 scanVars>>

\* a request of the handler fails with error and the handler catches it:
\* it logs and goes on
UpstreamFailureCaught(call) ==
  /\ toolStep = "handling"
  /\ call \in caughtCalls(toolName)
  /\ Len(absorbed) < MaxCaught
  /\ absorbed' = Append(absorbed, call)
  /\ UNCHANGED <<toolName, toolStep, thrown, toolResult>>
  /\ UNCHANGED <<extractionVars, tokenVars, analysisVars, crossVars, orgVars,
                 scanVars>>

\* a request of the handler fails with error and the handler rethrows it;
\* such a request (the tree, the files of the pull request, the one file)
\* comes before the requests whose failure the handler catches
UpstreamFailureRethrown(call, error) ==
  /\ toolStep = "handling"
  /\ call \in upstreamCalls(toolName) \ caughtCalls(toolName)
  /\ absorbed = <<>>
  /\ Dispatch(Threw("upstream", error))
  /\ UNCHANGED <<toolName, absorbed>>
  /\ UNCHANGED <<extractionVars, tokenVars, analysisVars, crossVars, orgVars,
                 scanVars>>

\* the handler throws of itself and its catch block rethrows
HandlerThrows(error) ==
  /\ toolStep = "handling"
  /\ error \in handlerErrors(toolName)
  /\ Dispatch(Threw("handler", error))
  /\ UNCHANGED <<toolName, absorbed>>
  /\ UNCHANGED <<extractionVars, tokenVars, analysisVars, crossVars, orgVars,
                 scanVars>>

\* the handler returns its result
HandlerReturns ==
  /\ toolStep = "handling"
  /\ Dispatch(Returned(handlerResult(toolName)))
  /\ UNCHANGED <<toolName, absorbed>>
  /\ UNCHANGED <<extractionVars, tokenVars, analysisVars, crossVars, orgVars,
                 scanVars>>

AllCalls == UNION {upstreamCalls(toolNames[n]) : n \in 1..Len(toolNames)}

ToolsNext ==
  \/ \E name \in CalledNames : CallUnknown(name)
  \/ \E name \in CalledNames : CallTool(name)
  \/ SchemaRejects
  \/ SchemaAccepts
  \/ \E call \in AllCalls : UpstreamFailureCaught(call)
  \/ \E call \in AllCalls, error \in UpstreamErrors :
       UpstreamFailureRethrown(call, error)
  \/ \E error \in handlerErrors(toolName) : HandlerThrows(error)
  \/ HandlerReturns

SpecTools == Init /\ [][ToolsNext]_vars

\* ----------------------------------------------------------- properties

\* the lines of the last call's content
contentLines == Split(content, LineFeed)

\* the exact-quote pass produces a candidate on line i of the content
exactOn(i) ==
  \E j \in 1..Len(quotedStrings(contentLines[i])) :
    looksLikeEventName(quotedStrings(contentLines[i])[j])

\* a pattern of the cascade matches on line i of the content
cascadeOn(i) == scan(contentLines[i]).cascade # <<>>

\* the candidates the last call returned for line i
returnedOn(i) == LET on(e) == e.location.line = i IN SelectSeq(events, on)

oneExactMatchOn(i) ==
  /\ Len(returnedOn(i)) = 1
  /\ analyticsType(returnedOn(i)[1]) = "exact_match"

\* C1, as stated: after every call of extractSegmentEvents, each line on
\* which both the exact-quote pass and the pattern cascade produce a
\* candidate has exactly one returned candidate, classified exact_match.
\* The call that raises returns nothing for such a line.
C1_AsStated ==
  pc \in {"returned", "raised"} =>
    \A i \in 1..Len(contentLines) : (exactOn(i) /\ cascadeOn(i)) => oneExactMatchOn(i)

searchedInVain ==
  /\ exactMatchRepos = <<>>
  /\ \E k \in 1..Len(requests) : requests[k].api = "search.code"

\* the name has a run of three or more characters free of whitespace, "-",
\* "_" and "." (bounded by such a character or an end of the name) that is
\* not a stop word
hasWord(name) ==
  \E i \in 1..Len(name), j \in 1..Len(name) :
    /\ j >= i + 2
    /\ \A k \in i..j : Ch(name, k) \notin Delimiters
    /\ i = 1 \/ Ch(name, i - 1) \in Delimiters
    /\ j = Len(name) \/ Ch(name, j + 1) \in Delimiters
    /\ ~InList(stopWords, ToLowerCase(SubSeq(name, i, j)))

\* C4, as stated: when the exact code search yields no repository,
\* searchOrgEvent does not throw and returns search_phase exact_match_failed
\* with a non-empty list of suggested search tokens, for every event name.
C4_AsStated ==
  searchedInVain =>
    /\ opc # "raised"
    /\ opc = "done" =>
         /\ ~result.isError
         /\ result.search_phase = "exact_match_failed"
         /\ result.keywords_to_search # <<>>

\* C4, amended: when the exact code search yields no repository,
\* searchOrgEvent does not throw and returns search_phase exact_match_failed,
\* and the list of suggested search tokens is non-empty whenever the event
\* name has a word of three or more characters that is not a stop word.
C4_Amended ==
  searchedInVain =>
    /\ opc # "raised"
    /\ opc = "done" =>
         /\ ~result.isError
         /\ result.search_phase = "exact_match_failed"
         /\ hasWord(event_name) => result.keywords_to_search # <<>>

C4_Witness ==
  /\ opc = "done"
  /\ searchedInVain
  /\ hasWord(event_name)
  /\ Len(result.keywords_to_search) > 0

\* the requests for the file tree of the repository
treeRequests(name) ==
  {k \in 1..Len(requests) :
     requests[k].api = "git.getTree" /\ requests[k].repo = name}

\* the file tree of the repository failed to resolve on every candidate
\* branch
unresolved(repo) ==
  /\ \A k \in treeRequests(repo.name) : ~requests[k].ok
  /\ \A b \in Range(branchesToTry(refOf(repo))) :
       \E k \in treeRequests(repo.name) : requests[k].ref = b

inResults(name) ==
  \E r \in 1..Len(scanLists.orgResults) :
    scanLists.orgResults[r].repository = name

\* C5: a repository of the targeted scan phase whose file tree fails to
\* resolve on every candidate branch is in error_repositories and neither in
\* processed_repositories nor in repository_results, and when the phase is
\* over the file tree of every candidate repository has been requested.
C5_ErrorsOnly ==
  /\ \A i \in 1..Len(exactMatchRepos) :
       unresolved(exactMatchRepos[i]) =>
         /\ InList(scanLists.errorRepos, exactMatchRepos[i].name)
         /\ ~InList(scanLists.processedRepos, exactMatchRepos[i].name)
         /\ ~inResults(exactMatchRepos[i].name)
  /\ (opc = "done" /\ exactMatchRepos # <<>>) =>
       /\ \A i \in 1..Len(exactMatchRepos) :
            treeRequests(exactMatchRepos[i].name) # {}
       /\ result.error_repositories = scanLists.errorRepos
       /\ result.processed_repositories = scanLists.processedRepos
       /\ result.repository_results = scanLists.orgResults

C5_Witness ==
  /\ opc = "done"
  /\ \E i \in 1..Len(exactMatchRepos), j \in 1..Len(exactMatchRepos) :
       /\ i < j
       /\ unresolved(exactMatchRepos[i])
       /\ InList(result.processed_repositories, exactMatchRepos[j].name)

\* the keys of a candidate
keySet(properties) == Range(ObjectKeys(properties))

\* two keys that differ only by underscore, hyphen or letter case
variants(k1, k2) == k1 # k2 /\ normalize(k1) = normalize(k2)

reported(messages, k1, k2) ==
  \E m \in 1..Len(messages) : Includes(messages[m], k1) /\ Includes(messages[m], k2)

\* every pair of variant keys of the candidates is named by a message
variantsReported(allEvents, messages) ==
  \A i \in 1..Len(allEvents), j \in 1..Len(allEvents) :
    \A k1 \in keySet(allEvents[i].properties),
       k2 \in keySet(allEvents[j].properties) :
      variants(k1, k2) => reported(messages, k1, k2)

\* C6, as stated: two candidates whose property keys differ only by
\* underscore, hyphen or letter case always make
\* findImplementationInconsistencies report an inconsistency that names the
\* differing keys.
C6_AsStated ==
  (crossStep = "summarized" /\ matched # <<>>) =>
    variantsReported(eventsOf(matched),
                     crossSummary.implementation_inconsistencies)

RECURSIVE sumOfCounts(_)
sumOfCounts(groups) ==
  IF groups = <<>> THEN 0 ELSE groups[1].count + sumOfCounts(Tail(groups))

\* the groups whose candidates have the keys of properties
groupsOf(groups, properties) ==
  {g \in 1..Len(groups) :
     keySet(groups[g].example_properties) = keySet(properties)}

sameKeys(allEvents, properties) ==
  {i \in 1..Len(allEvents) : keySet(allEvents[i].properties) = keySet(properties)}

oneGroupEach(allEvents, groups) ==
  /\ \A i \in 1..Len(allEvents) :
       /\ Cardinality(groupsOf(groups, allEvents[i].properties)) = 1
       /\ \A g \in groupsOf(groups, allEvents[i].properties) :
            groups[g].count
              = Cardinality(sameKeys(allEvents, allEvents[i].properties))
  /\ sumOfCounts(groups) = Len(allEvents)

\* C7: in the cross-repo analysis the candidates with one set of keys,
\* whatever the order of the keys, are counted in one signature group, and
\* the counts of the groups add up to the number of candidates.
C7_OneGroupPerKeySet ==
  (crossStep = "summarized" /\ matched # <<>>) =>
    oneGroupEach(eventsOf(matched), crossSummary.property_variations)

C7_Witness ==
  /\ crossStep = "summarized"
  /\ \E i \in 1..Len(matched), j \in 1..Len(matched) :
       /\ keySet(matched[i].events[1].properties)
            = keySet(matched[j].events[1].properties)
       /\ ObjectKeys(matched[i].events[1].properties)
            # ObjectKeys(matched[j].events[1].properties)
  /\ Len(crossSummary.property_variations) < Len(matched)

\* C8: the score of the quality report is always an integer from 0 to 100,
\* and analysing the list with one more candidate never gives a higher score.
C8_ScoreBounded ==
  /\ [](report.score \in 0..100)
  /\ [][report'.score <= report.score]_vars

C8_Witness ==
  /\ Len(analysed) = 3
  /\ \A i \in 1..Len(analysed) : Len(analysed[i].properties) > 15
  /\ report.score = 0

\* C9, as stated: extracting the tokens of the tokens of a name, joined by
\* spaces, gives the same set of tokens.
C9_AsStated == tokenStep = "resplit" => Range(retokens) = Range(tokens)

\* C10, as stated: no call of extractSegmentEvents raises.
C10_AsStated == pc # "raised"


\* what the last call's inputs give in a runtime that has every builtin
inIntactRuntime == extractSegmentEvents(content, filename, {})

\* C11, as stated: extractSegmentEvents is pure and deterministic. A call
\* changes no state outside its result (the runtime is after the call what
\* it was before), and it gives what the same content and filename give in
\* any other state of the runtime: the same candidates in the same order,
\* and it raises in the one exactly when it raises in the other.
C11_AsStated ==
  /\ [][runtime' = runtime]_vars
  /\ [](pc # "idle" => /\ events = inIntactRuntime.events
                       /\ (pc = "raised") = inIntactRuntime.raised)


\* the analytics types of the candidates the last call returned
returnedTypes == {analyticsType(events[i]) : i \in 1..Len(events)}

\* C12: every candidate extractSegmentEvents returns has a name that is not
\* empty and a line number that counts the lines of the content from 1,
\* whether the exact-quote pass, the try block of the cascade or its catch
\* block emitted it.
C12_NamedAndLocated ==
  \A i \in 1..Len(events) :
    /\ events[i].name # ""
    /\ events[i].location.line \in 1..Len(contentLines)

\* a call returned a candidate of the exact-quote pass on its second line
\* and one of the catch block
C12_Witness ==
  /\ pc = "returned"
  /\ {"exact_match", "unknown"} \subseteq returnedTypes
  /\ \E i \in 1..Len(events) : events[i].location.line = 2


\* an occurrence with its file and its line
located(e) == e.location.file # "" /\ e.location.line >= 1

\* a repository of the result with at least one occurrence, each located
confirmedIn(r) ==
  /\ r.events_found >= 1
  /\ Len(r.events) = r.events_found
  /\ \A j \in 1..Len(r.events) : located(r.events[j])

\* the search returned at least one repository with confirmed occurrences
confirmedOccurrences ==
  /\ result.search_phase = "exact_match_success"
  /\ Len(result.repository_results) >= 1
  /\ \A i \in 1..Len(result.repository_results) :
       confirmedIn(result.repository_results[i])

\* the search returned the guidance: the tokens to search for and the
\* repositories to look at
guidance ==
  /\ result.search_phase = "exact_match_failed"
  /\ result.keywords_to_search = extractSearchTokens(event_name)
  /\ Len(result.suggested_repos) <= Len(result.repositories)

\* the search returned Phase 1's result with no repository in it and the
\* summary of no occurrence
noOccurrences ==
  /\ result.search_phase = "exact_match_success"
  /\ exactMatchRepos # <<>>
  /\ result.repository_results = <<>>
  /\ result.cross_repo_summary.total_occurrences = 0

\* C13, as stated: every completed organization search returns at least one
\* repository with confirmed occurrences, each with its file and line, or
\* the guidance of Phase 2.
C13_AsStated == opc = "done" => confirmedOccurrences \/ guidance

\* C13, amended: every completed organization search returns at least one
\* repository with confirmed occurrences, each with its file and line, or
\* the guidance of Phase 2, or, when the code search found repositories and
\* no scan of them confirmed an occurrence, the result of Phase 1 with no
\* repository and the summary that counts zero occurrences.
C13_Amended ==
  opc = "done" => confirmedOccurrences \/ guidance \/ noOccurrences

\* a search whose code search found a repository, whose scan returned no
\* occurrence, and which returned
C13_Witness ==
  /\ opc = "done"
  /\ noOccurrences
  /\ result.processed_repositories # <<>>


\* the requests of the search made to api
requestsTo(api) == SelectSeq(requests, LAMBDA q : q.api = api)

\* the code search of Phase 1 answered with at least one repository
searchFoundRepository ==
  \E k \in 1..Len(requests) :
    requests[k].api = "search.code" /\ requests[k].hits >= 1

\* C14, as stated: whenever the exact code search returns at least one
\* matching repository, the search never lists the repositories of the
\* organization and never returns exact_match_failed, whatever max_repos is.
C14_AsStated ==
  searchFoundRepository =>
    /\ requestsTo("repos.listForOrg") = <<>>
    /\ result.search_phase # "exact_match_failed"


\* the services the search has called, in order
calledApis == [k \in 1..Len(requests) |-> requests[k].api]

\* C15: a search that enters Phase 2 has made one code search and nothing
\* else, and a search that returns exact_match_failed has made one code
\* search followed by one listing of the organization's repositories: no
\* request for a file tree and none for a file's content.
C15_SearchThenListing ==
  /\ opc = "phase2" => calledApis = <<"search.code">>
  /\ result.search_phase = "exact_match_failed" =>
       calledApis = <<"search.code", "repos.listForOrg">>

\* a search returned the guidance of Phase 2 after its code search succeeded
\* and found nothing
C15_Witness ==
  /\ opc = "done"
  /\ result.search_phase = "exact_match_failed"
  /\ requests[1].ok /\ requests[1].hits = 0
  /\ Len(requests) = 2


\* the files of the batch the for loop is at
currentBatch == batchAt(toScan, batchStart, batchSize(scanner))

\* C16: in both scanners the requests in flight belong to one batch, the
\* one the loop is at, so they are at most 10 in the repository scan and at
\* most 5 in the targeted scan; and a request is issued only when no
\* request is in flight, every request of the batch before having settled.
C16_OneBatchInFlight ==
  /\ [](/\ inFlight \subseteq currentBatch
        /\ scanner = "repository" => Cardinality(inFlight) <= 10
        /\ scanner = "targeted" => Cardinality(inFlight) <= 5)
  /\ [][inFlight' \ inFlight # {} => inFlight = {}]_vars

\* the second batch of a repository scan is in flight, after a first batch
\* of ten
C16_Witness ==
  /\ scanner = "repository"
  /\ batchStart = 10
  /\ inFlight = {11}


\* is the sequence s the beginning of the sequence t
IsPrefix(s, t) == Len(s) <= Len(t) /\ SubSeq(t, 1, Len(s)) = s

\* C17: in the targeted scan, once a matching candidate is counted no
\* request is issued any more, so no later batch is started; what is
\* pushed to matchingEvents stays in it; and the scan returns with no
\* request in flight, every counted candidate in the list it returns.
C17_EarlyExitKeepsBatch ==
  /\ [][(scanner = "targeted" /\ foundEvents > 0) =>
          inFlight' \subseteq inFlight]_vars
  /\ [][scanner = "targeted" => IsPrefix(scanEvents, scanEvents')]_vars
  /\ []((scanner = "targeted" /\ spc = "done") =>
          /\ inFlight = {}
          /\ scanResult.matchingEvents = scanEvents
          /\ Len(scanEvents) = foundEvents)

\* a targeted scan returned the candidates of two files of its first batch
\* and left its second batch unrequested
C17_Witness ==
  /\ scanner = "targeted"
  /\ spc = "done"
  /\ batchStart = 0
  /\ Len(toScan) > 5
  /\ {scanResult.matchingEvents[n].location.file :
        n \in 1..Len(scanResult.matchingEvents)}
       = {"src/signup.ts", "lib/legacy.js"}


\* the paths of the files of the tree for which getContent answers response
pathsWith(response) ==
  {toScan[k].path : k \in {j \in 1..Len(toScan) : toScan[j].response = response}}

\* the files of the repository scan are recorded as the claim C18 says: no
\* file is both processed and in error, a file whose fetch fails is in
\* error, and a file is processed only if its content was fetched
recordedApart ==
  /\ Range(scanResult.processed_files) \cap Range(scanResult.error_files) = {}
  /\ pathsWith("fails") \subseteq Range(scanResult.error_files)
  /\ Range(scanResult.processed_files) \subseteq pathsWith("content")
  /\ pathsWith("content") \subseteq
       Range(scanResult.processed_files) \cup Range(scanResult.error_files)

\* the scan returns the candidates of the files it processed, and of them
\* only
candidatesReturned ==
  /\ scanResult.all_events = scanEvents
  /\ \A n \in 1..Len(scanEvents) :
       scanEvents[n].location.file \in Range(scanResult.processed_files)

\* C18, as stated: in the repository scan a file whose content fetch or
\* extraction fails is recorded in error_files and not in processed_files,
\* and the failure aborts neither its batch nor the scan, which returns the
\* candidates of every file that was fetched and extracted.
C18_AsStated ==
  scanner = "repository" =>
    /\ spc # "raised"
    /\ spc = "done" => recordedApart /\ candidatesReturned


\* nothing gathered, in a runtime that has every builtin
nothingGathered ==
  [env |-> {}, allEvents |-> <<>>, extracted |-> {},
   errorFiles |-> <<>>, processedFiles |-> <<>>, foundEvents |-> 0]

\* the callbacks of the files k..last of a batch, run in the order of the
\* files
RECURSIVE settledInOrder(_, _, _, _, _, _)
settledInOrder(kind, acc, files, k, last, targetEvent) ==
  IF k > last THEN acc
  ELSE settledInOrder(kind, fetchSettled(kind, acc, files[k], targetEvent),
                      files, k + 1, last, targetEvent)

\* the scan from the batch at i on, the requests of each batch settling in
\* the order of the files: what it gathers and the batch it stops at
RECURSIVE scannedInOrder(_, _, _, _, _)
RECURSIVE afterBatchInOrder(_, _, _, _, _)
scannedInOrder(kind, acc, files, i, targetEvent) ==
  IF i >= Len(files) THEN [batchStart |-> i, gathered |-> acc]
  ELSE afterBatchInOrder(
         kind,
         settledInOrder(kind, acc, files, i + 1,
                        Min({i + batchSize(kind), Len(files)}), targetEvent),
         files, i, targetEvent)

afterBatchInOrder(kind, acc, files, i, targetEvent) ==
  IF kind = "targeted" /\ acc.foundEvents > 0
    THEN [batchStart |-> i, gathered |-> acc]
    ELSE scannedInOrder(kind, acc, files, i + batchSize(kind), targetEvent)

\* how many times x occurs in the sequence s
Occurrences(s, x) == Cardinality({n \in 1..Len(s) : s[n] = x})

\* the two sequences hold the same elements the same number of times
SameMultiset(s, t) ==
  /\ Len(s) = Len(t)
  /\ \A x \in Range(s) : Occurrences(s, x) = Occurrences(t, x)

\* the scan gathered what other gathered and stopped where it stopped
sameOutcome(other) ==
  /\ SameMultiset(scanEvents, other.gathered.allEvents)
  /\ foundEvents = other.gathered.foundEvents
  /\ batchStart = other.batchStart

\* C19, as stated: when a scan of either kind has left its loop, the
\* candidates it gathered, counted with their multiplicity, the
\* found-events counter and the batch at which it stopped are those of the
\* scan whose requests settle in the order of the files: they are the same
\* for every order in which the requests of a batch settle.
C19_AsStated ==
  spc \in {"exit", "done", "raised"} \/ (spc = "loop" /\ batchStart >= Len(toScan))
    => sameOutcome(scannedInOrder(scanner, nothingGathered, toScan, 0,
                                  scanTarget))


\* the call met a failure inside the handler or the switch: one that was
\* thrown, or a failed request
failureInside == thrown # "" \/ absorbed # <<>>

\* the result carries a message after its prefix
readable == Len(toolResult.text) > Len("Error: ")

\* C20, as stated: no exception passes the dispatcher, and a call that met
\* a failure inside its handler (a schema violation, a failed request, an
\* unknown tool name) ends with a result that has isError true and a
\* message.
C20_AsStated ==
  /\ toolStep # "raised"
  /\ (toolStep = "done" /\ failureInside) => (toolResult.isError /\ readable)

\* C20, amended: no exception passes the dispatcher; a call ends with
\* isError true and a message exactly when a failure left its handler or
\* the switch as an exception (a schema violation, a failed request the
\* handler does not catch, an error the handler throws, an unknown tool
\* name); a call all of whose failures the handler caught ends with the
\* handler's result, isError false.
C20_Amended ==
  /\ toolStep # "raised"
  /\ toolStep = "done" =>
       /\ toolResult.isError <=> thrown # ""
       /\ toolResult.isError => readable
       /\ ~toolResult.isError => toolResult = handlerResult(toolName)

\* the one request of extract_events_from_file failed with a value that is
\* no Error, and the call ended with the message made of it
C20_Witness ==
  /\ toolStep = "done"
  /\ toolName = "extract_events_from_file"
  /\ thrown = "upstream"
  /\ toolResult = [text |-> "Error: socket hang up", isError |-> TRUE]


\* the matches of the last call's content, in the order the cascade
\* processes them
contentMatches == cascadeMatches(contentLines)

\* the capture n of a match of the last call's content
captured(item, n) == Group(contentLines[item.line], item.m, n)

\* the cascade pushed, for the line of the match, a candidate of that name
\* and that classification
emittedAs(item, name, type) ==
  \E j \in 1..Len(emitted) :
    /\ emitted[j].name = name
    /\ analyticsType(emitted[j]) = type
    /\ emitted[j].location.line = item.line

\* the matches of one pattern (by its place in the patterns array, from 0)
matchesOf(index) ==
  {k \in 1..Len(contentMatches) : contentMatches[k].patternIndex = index}

\* the places of the two definition-with-string-value patterns
constantDefinition == 13

keyWithStringValue == 14

\* the last call returned, and no builtin of the runtime is replaced
returnedIntact == pc = "returned" /\ runtime = {}

\* C21, as stated: in a call that returns, each match of the
\* constant-definition pattern CONST = "Literal" is pushed by the cascade
\* with the captured string for its name and classification constant, and
\* each match of the key-with-string-value pattern key: "Literal" is pushed
\* with the captured string for its name and classification property.
\* Stated for the runtime that has every builtin, where no parsing fails.
C21_AsStated ==
  returnedIntact =>
    /\ \A k \in matchesOf(constantDefinition) :
         emittedAs(contentMatches[k], captured(contentMatches[k], 2),
                   "constant")
    /\ \A k \in matchesOf(keyWithStringValue) :
         emittedAs(contentMatches[k], captured(contentMatches[k], 2),
                   "property")


\* the places of the two constant-reference patterns
enumReference == 11

screamingReference == 12

\* a captured name as the name normalization leaves it
normalized(name) == IF Includes(name, "_") THEN toCamelCase(name) ELSE name

\* the cascade pushed, for the line of the match, a candidate of that name
emittedNamed(item, name) ==
  \E j \in 1..Len(emitted) :
    emitted[j].name = name /\ emitted[j].location.line = item.line

\* C22, as stated: in a call that returns, each match of the enum reference
\* EventName.X and of the constant reference EVENT_X is pushed by the cascade
\* with classification constant and its captured name in camel case when
\* the name has an underscore, while the name the cascade takes from a
\* string value is pushed as it is written.  Stated for the runtime that
\* has every builtin.
C22_AsStated ==
  returnedIntact =>
    /\ \A k \in matchesOf(enumReference) \cup matchesOf(screamingReference) :
         emittedAs(contentMatches[k],
                   normalized(captured(contentMatches[k], 1)), "constant")
    /\ \A k \in matchesOf(keyWithStringValue) :
         emittedNamed(contentMatches[k], captured(contentMatches[k], 2))


\* the places of the three third-party call patterns
mixpanelTrack == 15

gtagEvent == 16

gaSendEvent == 17

\* the matches of the three third-party call patterns
thirdPartyMatches ==
  matchesOf(mixpanelTrack) \cup matchesOf(gtagEvent) \cup matchesOf(gaSendEvent)

\* the third-party matches that capture the name of match k on its line
sameCall(k) ==
  {q \in thirdPartyMatches :
     /\ contentMatches[q].line = contentMatches[k].line
     /\ captured(contentMatches[q], 1) = captured(contentMatches[k], 1)}

\* the candidates the cascade pushed for them, if it pushed one for each
pushedThirdParty(k) ==
  {j \in 1..Len(emitted) :
     /\ emitted[j].name = captured(contentMatches[k], 1)
     /\ analyticsType(emitted[j]) = "third_party"
     /\ emitted[j].location.line = contentMatches[k].line}

\* C23, as stated: in a call that returns, each match of mixpanel.track(,
\* of gtag('event', and of ga('send', 'event', is pushed by the cascade with
\* the captured event string for its name and classification third_party:
\* a line has as many such candidates of a name as it has third-party
\* matches capturing that name.  Stated for the runtime that has every
\* builtin.
C23_AsStated ==
  returnedIntact =>
    \A k \in thirdPartyMatches :
      Cardinality(pushedThirdParty(k)) >= Cardinality(sameCall(k))


\* the candidate branches of the claim, in its order, for a repository
\* whose ref is ref
candidateOrder(ref) ==
  <<ref, "main", "master", "develop", "development", "staging">>

\* the places in requests of the requests to api for the repository
requestsOf(api, name) ==
  {k \in 1..Len(requests) : requests[k].api = api /\ requests[k].repo = name}

\* the place of request k among the requests of S, from 1
rank(S, k) == Cardinality({j \in S : j <= k})

\* the tree requests of a repository follow the order of the candidates, and
\* none comes after one that resolved
treesInOrder(repo) ==
  \A k \in requestsOf("git.getTree", repo.name) :
    /\ rank(requestsOf("git.getTree", repo.name), k) <= 6
    /\ requests[k].ref
         = candidateOrder(refOf(repo))[rank(requestsOf("git.getTree",
                                                       repo.name), k)]
    /\ requests[k].ok => k = Max(requestsOf("git.getTree", repo.name))

\* each content request of a repository follows the tree request that
\* resolved, on its branch
fetchedOnResolved(repo) ==
  \A k \in requestsOf("repos.getContent", repo.name) :
    \E t \in requestsOf("git.getTree", repo.name) :
      /\ t < k
      /\ requests[t].ok
      /\ requests[k].ref = requests[t].ref

\* C24: for each repository of Phase 1 the file tree is requested on ref,
\* main, master, develop, development, staging in that order, no tree is
\* requested after the first that resolves, and every content request of
\* the repository names the branch that resolved.
C24_BranchDiscovery ==
  \A i \in 1..Len(exactMatchRepos) :
    treesInOrder(exactMatchRepos[i]) /\ fetchedOnResolved(exactMatchRepos[i])

\* a repository whose tree resolved on the third candidate, after which its
\* content was requested, and the call is over
C24_Witness ==
  /\ opc = "done"
  /\ \E i \in 1..Len(exactMatchRepos) :
       /\ Cardinality(requestsOf("git.getTree", exactMatchRepos[i].name)) = 3
       /\ Cardinality(requestsOf("repos.getContent",
                                 exactMatchRepos[i].name)) = 2
       /\ \E k \in requestsOf("repos.getContent", exactMatchRepos[i].name) :
            requests[k].ref = "master"


\* the scores of the files to scan and of the files of the tree
scanScores == scoresOf(toScan, scanTarget)

treeScores == scoresOf(allFiles, scanTarget)

\* the files of the tree (by their place in allFiles) that are not scanned
leftOut ==
  {i \in 1..Len(allFiles) :
     \A k \in 1..Len(toScan) : toScan[k].path # allFiles[i].path}

\* the files to scan are files of the tree, each once
chosenFromTree ==
  /\ \A k \in 1..Len(toScan) :
       \E i \in 1..Len(allFiles) : allFiles[i] = toScan[k]
  /\ \A k, q \in 1..Len(toScan) : toScan[k].path = toScan[q].path => k = q

\* a list of scores that never rises
highestFirst(scores) ==
  \A k \in 1..(Len(scores) - 1) : scores[k] >= scores[k + 1]

\* no file left out scores higher than a file that is scanned
noneBetterLeftOut(ofTree, ofScan) ==
  \A i \in leftOut : \A k \in 1..Len(ofScan) : ofTree[i] <= ofScan[k]

\* C25: the targeted scan requests the content of files of its scan set
\* only, which holds at most 50 files of the tree; no file left out of the
\* set scores strictly higher than a file in it; the set is in descending
\* order of score and each batch requested is the next five files of it
\* (fewer at the end), so the batches are taken in descending order.
C25_TopFiftyFirst ==
  /\ [](scanner = "targeted" =>
          /\ Len(toScan) <= 50
          /\ inFlight \subseteq 1..Len(toScan)
          /\ chosenFromTree
          /\ highestFirst(scanScores)
          /\ noneBetterLeftOut(treeScores, scanScores))
  /\ [][scanner = "targeted" =>
          /\ toScan' = toScan
          /\ batchStart' >= batchStart
          /\ inFlight' \ inFlight # {} =>
               inFlight' \ inFlight
                 = (batchStart + 1)..Min({batchStart + 5, Len(toScan)})]_vars

\* the last batch of a tree of 52 files is requested: files 46 to 50 of the
\* scan set, two files are left out, one of them with the score of a file
\* that is scanned, and the order of the scan set is not the order of the
\* tree
C25_Witness ==
  /\ scanner = "targeted"
  /\ Len(allFiles) = 52
  /\ Cardinality(leftOut) = 2
  /\ \E i \in leftOut : treeScores[i] = scanScores[50]
  /\ inFlight = 46..50
  /\ toScan # SubSeq(allFiles, 1, 50)


\* sub is a substring of s
occursIn(sub, s) ==
  \E i \in 1..(Len(s) - Len(sub) + 1) : SubSeq(s, i, i + Len(sub) - 1) = sub

\* the file of the scan set at a path
scannedAt(path) == {k \in 1..Len(toScan) : toScan[k].path = path}

\* the raw text of the file at the path holds the target event string
holdsTarget(path) ==
  /\ scannedAt(path) # {}
  /\ \A k \in scannedAt(path) :
       /\ toScan[k].response = "content"
       /\ occursIn(scanTarget, toScan[k].text)

\* the name is the target name, holds it or is held by it
namesTarget(name) ==
  \/ name = scanTarget
  \/ occursIn(scanTarget, name)
  \/ occursIn(name, scanTarget)

\* C26: in the targeted scan every candidate gathered, and every candidate
\* returned when the scan is over, comes from a file of the scan set whose
\* text holds the target event string, and has a name that is the target
\* name, holds it or is held by it; extractSegmentEvents is called for no
\* file whose text does not hold the target event string.
C26_TargetOnly ==
  scanner = "targeted" =>
    /\ \A p \in extracted : holdsTarget(p)
    /\ \A j \in 1..Len(scanEvents) :
         /\ holdsTarget(scanEvents[j].location.file)
         /\ namesTarget(scanEvents[j].name)
    /\ spc = "done" => scanResult.matchingEvents = scanEvents

\* the scan returned the one candidate of a file that holds the target
\* event string and a candidate of another name, and called the extraction
\* for that file only, though another file with a content was fetched
C26_Witness ==
  /\ scanner = "targeted"
  /\ spc = "done"
  /\ Len(scanResult.matchingEvents) = 1
  /\ scanResult.matchingEvents[1].location.file = "src/form.ts"
  /\ extracted = {"src/form.ts"}
  /\ \E k \in 1..Len(toScan) :
       toScan[k].response = "content" /\ toScan[k].path # "src/form.ts"


\* the keys the claim counts as identifying the user
identifyingKeys == {"userId", "user_id", "id", "customerId", "customer_id"}

\* the keys of the i-th candidate analysed
keysOf(i) == Range(ObjectKeys(analysed[i].properties))

\* the candidates of a name that have a property and no identifying key
unidentified(name) ==
  {i \in 1..Len(analysed) :
     /\ analysed[i].name = name
     /\ keysOf(i) # {}
     /\ keysOf(i) \cap identifyingKeys = {}}

\* the suggestion of the user-identification check for a name
identificationSuggestion(name) ==
  "Event \"" \o name \o "\" might benefit from user identification property"

\* C27, as stated: the report of analyzeEvents holds the user-identification
\* suggestion for a name once for each candidate of that name that has at
\* least one property and none of the keys userId, user_id, id, customerId,
\* customer_id, and for no other candidate; a candidate with the key userId
\* or customerId gets none.
C27_AsStated ==
  \A i \in 1..Len(analysed) :
    Occurrences(report.suggestions,
                identificationSuggestion(analysed[i].name))
      = Cardinality(unidentified(analysed[i].name))


\* the repositories of the match results that hold a candidate with the
\* keys of properties, by the name the result gives them
contributors(properties) ==
  {matched[i].repository :
     i \in {r \in 1..Len(matched) :
              \E j \in 1..Len(matched[r].events) :
                keySet(matched[r].events[j].properties) = keySet(properties)}}

\* C28, as stated: in the summary of the cross-repo analysis the
\* repositories listed for a signature group are exactly the repositories
\* of the match results that hold at least one candidate with the keys of
\* the group.
C28_AsStated ==
  (crossStep = "summarized" /\ matched # <<>>) =>
    \A g \in 1..Len(crossSummary.property_variations) :
      Range(crossSummary.property_variations[g].repositories)
        = contributors(crossSummary.property_variations[g].example_properties)

\* the candidates of the first pass of the last call, which returned: the
\* first pass of a call that returns called no replaced builtin
exactCandidates == exactPass(contentLines, filename, {}).events

\* everything the last call pushed, in the order it pushed it
pushed == exactCandidates \o emitted

\* the members of a list located on one line, in the order of the list
onLineOf(list, line) ==
  Filtered(list, {i \in 1..Len(list) : list[i].location.line = line})

\* the first of each distinct name in a list of candidates of one line
firstOfEachName(list) ==
  Filtered(list, {i \in 1..Len(list) :
                    \A j \in 1..(i - 1) : list[j].name # list[i].name})

\* a is b with some members taken out
RECURSIVE isSubsequence(_, _)
isSubsequence(a, b) ==
  IF a = <<>> THEN TRUE
  ELSE IF b = <<>> THEN FALSE
  ELSE IF a[1] = b[1] THEN isSubsequence(Tail(a), Tail(b))
  ELSE isSubsequence(a, Tail(b))

\* the lines of the last call's content for which nothing of the first
\* pass was pushed
linesWithoutExact ==
  {l \in 1..Len(contentLines) : onLineOf(exactCandidates, l) = <<>>}

\* C29: the list a call of extractSegmentEvents returns never holds two
\* candidates of the same name on the same line; for a line with no
\* exact_match candidate it holds the first pushed candidate of each distinct
\* name of that line, and the candidates it holds are in the order in which
\* they were pushed.
C29_FirstOfEachPair ==
  pc = "returned" =>
    /\ \A i, j \in 1..Len(events) :
         (events[i].name = events[j].name
            /\ events[i].location.line = events[j].location.line) => i = j
    /\ \A l \in linesWithoutExact :
         onLineOf(events, l) = firstOfEachName(onLineOf(emitted, l))
    /\ isSubsequence(events, pushed)

\* a call returned for a line with no exact_match candidate for which the
\* cascade pushed the same name twice and another name besides: the list
\* holds fewer candidates of that line than were pushed, and more than one
C29_Witness ==
  /\ pc = "returned"
  /\ \E l \in linesWithoutExact :
       /\ Len(onLineOf(events, l)) > 1
       /\ Len(onLineOf(events, l)) < Len(onLineOf(emitted, l))

\* the names of a list of repositories
repoNames(repos) == {repos[i].name : i \in 1..Len(repos)}

\* how many times a name is listed
timesListed(list, name) == Cardinality({i \in 1..Len(list) : list[i] = name})

RECURSIVE eventsFoundFrom(_, _)
eventsFoundFrom(results, i) ==
  IF i > Len(results) THEN 0
  ELSE results[i].events_found + eventsFoundFrom(results, i + 1)

\* the call returned the result of Phase 1
scanPhaseFinished ==
  opc = "done" /\ result.search_phase = "exact_match_success"

\* C30: when the scan loop of Phase 1 is over, every repository the exact
\* search returned is listed once, in processed_repositories or in
\* error_repositories and not in both; every entry of repository_results
\* names a processed repository and holds at least one event, as many as its
\* events_found says; and total_occurrences of the summary is the sum of
\* events_found over repository_results.
C30_ScanAccounting ==
  scanPhaseFinished =>
    /\ \A name \in repoNames(exactMatchRepos) :
         timesListed(result.processed_repositories, name)
           + timesListed(result.error_repositories, name) = 1
    /\ Range(result.processed_repositories)
         \cup Range(result.error_repositories) = repoNames(exactMatchRepos)
    /\ \A g \in 1..Len(result.repository_results) :
         /\ result.repository_results[g].repository
              \in Range(result.processed_repositories)
         /\ result.repository_results[g].events_found >= 1
         /\ result.repository_results[g].events_found
              = Len(result.repository_results[g].events)
    /\ result.cross_repo_summary.total_occurrences
         = eventsFoundFrom(result.repository_results, 1)

\* Phase 1 finished over two repositories, the scan of one of which threw
\* while the other's returned two events
C30_Witness ==
  /\ scanPhaseFinished
  /\ Len(exactMatchRepos) = 2
  /\ Len(result.error_repositories) = 1
  /\ Len(result.repository_results) = 1
  /\ result.cross_repo_summary.total_occurrences = 2

====
